---- MODULE Spec2Model ----
(***************************************************************************)
(* Frame scheduling and swapchain recreation of the renderer.              *)
(*                                                                         *)
(* The control thread runs Swapchain::init, Pipeline::init, Renderer::init *)
(* and then draw_frame over and over; the GPU drains the graphics queue    *)
(* concurrently.  Vectors of the program are sequences here: the C++       *)
(* element v[i] is At(v, i).  Handles are not modelled one by one; a       *)
(* vector of per-image objects is modelled by its length.                  *)
(***************************************************************************)
EXTENDS Integers, Sequences, FiniteSets, TLC

\* ---------------------------------------------------------------- bounds
MaxImages == 3          \* largest number of images a swapchain is given
MaxMinImageCount == 2   \* largest caps.minImageCount the surface reports
MaxFormats == 2         \* longest list of surface formats the surface reports
MaxSpirvBytes == 5      \* largest size of a shader bytecode file
MaxVertices == 3        \* largest number of vertices given to a mesh
MaxIndices == 3         \* largest number of indices given to a mesh
MaxCalls == 3           \* most init and shutdown calls made on one component
MaxMemoryTypes == 3     \* largest memoryTypeCount of a device
CountBits == 3          \* bits the model gives a uint32_t
SizeBits == 3           \* bits the model gives a std::size_t
MaxDevices == 2         \* most physical devices the instance enumerates
MaxFamilies == 2        \* most queue families of a physical device
MaxModes == 2           \* most present modes a surface reports
MaxExtent == 2          \* largest width or height a surface reports
IndexBits == 3          \* bits the model gives a std::int32_t
MaxObjVertices == 2     \* most vertex lines before the face line of a file
MaxFaceVertices == 4    \* most tokens of a face line

\* ------------------------------------------------------ program constants
kMaxFramesInFlight == 2

\* VkResult values that draw_frame tells apart; "ERROR" is any other code.
ResultCodes == {"SUCCESS", "SUBOPTIMAL", "OUT_OF_DATE", "ERROR"}

\* VkSurfaceFormatKHR values: a format and a colour space.
SurfaceFormats ==
  [format : {"B8G8R8A8_SRGB", "R8G8B8A8_UNORM"},
   colorSpace : {"SRGB_NONLINEAR", "OTHER"}]

RECURSIVE SeqsUpTo(_, _)
SeqsUpTo(S, n) ==
  IF n = 0 THEN {<<>>}
  ELSE LET shorter == SeqsUpTo(S, n - 1)
       IN shorter \cup {Append(s, x) : s \in {t \in shorter : Len(t) = n - 1}, x \in S}

\* The lists vkGetPhysicalDeviceSurfaceFormatsKHR can report.
FormatLists == SeqsUpTo(SurfaceFormats, MaxFormats)

\* The VkSurfaceCapabilitiesKHR image-count limits the surface can report.
SurfaceCaps ==
  {c \in [minImageCount : 1..MaxMinImageCount, maxImageCount : 0..MaxImages] :
     c.maxImageCount = 0 \/ c.maxImageCount >= c.minImageCount}

VARIABLES
  pc,               \* position of the control thread
  minimized,        \* the window's framebuffer size is 0x0
  swapchain_,       \* Swapchain::swapchain_ (0 is VK_NULL_HANDLE)
  liveSwapchains,   \* swapchain handles created and not yet destroyed
  old,              \* local `old` of Swapchain::recreate
  image_format_,    \* Swapchain::image_format_
  images_,          \* Swapchain::images_.size()
  image_views_,     \* Swapchain::image_views_.size()
  render_pass_format, \* colour attachment format of Pipeline::render_pass_
  command_buffers_, \* Renderer::command_buffers_.size()
  framebuffers_,    \* Renderer::framebuffers_.size()
  image_available_, \* per slot: a signal is pending on the semaphore
  render_finished_, \* per slot: a signal is pending on the semaphore
  in_flight_,       \* per slot: the fence is signaled
  frame_index_,     \* Renderer::frame_index_
  gfxQueue,         \* submissions the graphics queue has not completed
  image_index,      \* local image_index of draw_frame
  acq,              \* local acq of draw_frame ("none" before the call)
  pres,             \* local pres of draw_frame ("none" before the call)
  rcSite,           \* call site recreate_swapchain_dependent returns to
  ret,              \* value the last draw_frame returned
  skippedAtAcquire, \* the last return was the early one after acquisition
  calls,            \* device calls issued by the current draw_frame
  entry,            \* the slot's sync state when the current call began
  command_pool_,    \* Renderer::command_pool_ is not VK_NULL_HANDLE
  size_zero,        \* locals w, h of Swapchain::recreate hold a zero size
  scCalls,          \* device calls issued by the current Swapchain::recreate
  upload_cb,        \* the command buffer Upload::begin returned is allocated
  active,           \* the component whose lifetime is exercised
  handles,          \* handle fields that are not null
  liveObjects,      \* device objects created and not yet destroyed
  destroyed,        \* objects the last shutdown call destroyed, in order
  invalidDestroy,   \* a destroy call was given a null or a dead handle
  ops,              \* the calls made on the component so far
  staging_,         \* the temporary staging buffer of a device-local load is live
  copy_done,        \* the device has executed the staging copy
  call,             \* the last call of a free function, with its result
  waited,           \* ring slots a draw_frame has waited on since Renderer::init
  vk_result,        \* VkResult of the last device call of draw_frame
  reallocated,      \* the running recreation has reallocated the command buffers
  stale_views,      \* the views the live framebuffers were built from are destroyed
  counts            \* vertex_count_ and index_count_ of the active Mesh

vars == <<pc, minimized, swapchain_, liveSwapchains, old, image_format_,
          images_, image_views_, render_pass_format, command_buffers_,
          framebuffers_, image_available_, render_finished_, in_flight_,
          frame_index_, gfxQueue, image_index, acq, pres, rcSite, ret,
          skippedAtAcquire, calls, entry, command_pool_, size_zero, scCalls,
          upload_cb, active, handles, liveObjects, destroyed, invalidDestroy, ops,
          staging_, copy_done, call, waited, vk_result, reallocated,
          stale_views, counts>>

componentVars == <<active, handles, liveObjects, destroyed, invalidDestroy, ops,
                   counts>>
stagingVars == <<staging_, copy_done>>
historyVars == <<waited, vk_result, reallocated, stale_views>>
windowVars == <<minimized>>
swapchainVars == <<swapchain_, liveSwapchains, old, image_format_, images_, image_views_>>
pipelineVars == <<render_pass_format>>
perImageVars == <<command_buffers_, framebuffers_>>
syncVars == <<image_available_, render_finished_, in_flight_>>
localVars == <<image_index, acq, pres, rcSite>>
returnVars == <<ret, skippedAtAcquire>>

\* v.at(i) of a std::vector modelled as a sequence.
At(v, i) == v[i + 1]

\* v with v[i] replaced by x.
Put(v, i, x) == [v EXCEPT ![i + 1] = x]

\* No free function has been called yet.
NoCall == [fn |-> "none"]

Init ==
  /\ pc = "start"
  /\ minimized = FALSE
  /\ swapchain_ = 0
  /\ liveSwapchains = {}
  /\ old = 0
  /\ image_format_ = "UNDEFINED"
  /\ images_ = 0
  /\ image_views_ = 0
  /\ render_pass_format = "UNDEFINED"
  /\ command_buffers_ = 0
  /\ framebuffers_ = 0
  /\ image_available_ = <<>>
  /\ render_finished_ = <<>>
  /\ in_flight_ = <<>>
  /\ frame_index_ = 0
  /\ gfxQueue = <<>>
  /\ image_index = 0
  /\ acq = "none"
  /\ pres = "none"
  /\ rcSite = "none"
  /\ ret = "none"
  /\ skippedAtAcquire = FALSE
  /\ calls = <<>>
  /\ entry = [slot |-> 0, fence |-> TRUE, image_available |-> FALSE,
              render_finished |-> FALSE]
  /\ command_pool_ = FALSE
  /\ size_zero = TRUE
  /\ scCalls = <<>>
  /\ upload_cb = FALSE
  /\ staging_ = FALSE
  /\ copy_done = FALSE
  /\ call = NoCall
  /\ waited = {}
  /\ vk_result = "none"
  /\ reallocated = FALSE
  /\ stale_views = FALSE
  /\ active = "none"
  /\ handles = {}
  /\ liveObjects = {}
  /\ destroyed = <<>>
  /\ invalidDestroy = FALSE
  /\ ops = <<>>
  /\ counts = [vertex_count_ |-> 0, index_count_ |-> 0]

\* ------------------------------------------------------------ Swapchain

\* A test that looks at the format and not at the colour space.
IsPreferredFormat_AnyColorSpace(f) == f.format = "B8G8R8A8_SRGB"

\* The format is the one the code prefers: B8G8R8A8_SRGB in the sRGB
\* non-linear colour space.
IsPreferredFormat(f) ==
  f.format = "B8G8R8A8_SRGB" /\ f.colorSpace = "SRGB_NONLINEAR"

\* choose_surface_format on a non-empty list: the first preferred entry,
\* else the front of the list.
choose_surface_format(formats) ==
  IF \E i \in 1..Len(formats) : IsPreferredFormat(formats[i])
  THEN formats[CHOOSE i \in 1..Len(formats) :
                 /\ IsPreferredFormat(formats[i])
                 /\ \A j \in 1..(i - 1) : ~IsPreferredFormat(formats[j])]
  ELSE formats[1]

\* The largest uint32_t, and the sum of two of them as the machine
\* computes it.
Uint32Max == 2 ^ CountBits - 1
Uint32Add(a, b) == (a + b) % (Uint32Max + 1)

\* The minImageCount create_swapchain asks for.
RequestedImageCount(caps) ==
  LET image_count == Uint32Add(caps.minImageCount, 1)
  IN IF caps.maxImageCount # 0 /\ image_count > caps.maxImageCount
     THEN caps.maxImageCount
     ELSE image_count

\* The image counts vkGetSwapchainImagesKHR can report: at least the
\* requested minimum.
ActualImageCounts(caps) == RequestedImageCount(caps)..MaxImages

\* The handle vkCreateSwapchainKHR returns: one that is not live.
NewSwapchainHandle == CHOOSE h \in 1..2 : h \notin liveSwapchains

\* Swapchain::create_swapchain once choose_surface_format has succeeded.
create_swapchain(formats, caps, actual_count) ==
  /\ swapchain_' = NewSwapchainHandle
  /\ liveSwapchains' = liveSwapchains \cup {NewSwapchainHandle}
  /\ image_format_' = choose_surface_format(formats).format
  /\ images_' = actual_count

\* Swapchain::init: create_swapchain with no old handle, then
\* create_image_views.  An empty format list is fatal.
SwapchainInit ==
  /\ pc = "start"
  /\ \E formats \in FormatLists, caps \in SurfaceCaps :
       \E actual_count \in ActualImageCounts(caps) :
         IF formats = <<>>
         THEN /\ pc' = "failed"
              /\ UNCHANGED <<swapchain_, liveSwapchains, image_format_, images_, image_views_>>
         ELSE /\ create_swapchain(formats, caps, actual_count)
              /\ image_views_' = actual_count
              /\ pc' = "sc_ready"
  /\ UNCHANGED <<old, windowVars, pipelineVars, perImageVars, syncVars,
                 frame_index_, gfxQueue, localVars, returnVars, calls, entry,
                 command_pool_, size_zero, scCalls, upload_cb, componentVars,
                 stagingVars, call, historyVars>>

\* ------------------------------------------------------------- Pipeline

\* Pipeline::init: the render pass's colour attachment takes the format of
\* the swapchain it is built from.
PipelineInit ==
  /\ pc = "sc_ready"
  /\ render_pass_format' = image_format_
  /\ pc' = "pl_ready"
  /\ UNCHANGED <<windowVars, swapchainVars, perImageVars, syncVars,
                 frame_index_, gfxQueue, localVars, returnVars, calls, entry,
                 command_pool_, size_zero, scCalls, upload_cb, componentVars,
                 stagingVars, call, historyVars>>

\* ------------------------------------------------------------- Renderer

\* Fences created with no flag: unsignaled.
FenceCreateSignaled_NoFlag == FALSE

\* fci.flags = VK_FENCE_CREATE_SIGNALED_BIT: a fence is created signaled.
FenceCreateSignaled == TRUE

\* Renderer::create_sync: kMaxFramesInFlight triples, fences pre-signaled.
create_sync ==
  /\ image_available_' = [i \in 1..kMaxFramesInFlight |-> FALSE]
  /\ render_finished_' = [i \in 1..kMaxFramesInFlight |-> FALSE]
  /\ in_flight_' = [i \in 1..kMaxFramesInFlight |-> FenceCreateSignaled]

\* Renderer::init: command pool, one command buffer per image, one
\* framebuffer per image view, the sync triples.
RendererInit ==
  /\ pc = "pl_ready"
  /\ IF images_ = 0
     THEN /\ pc' = "failed"
          /\ UNCHANGED <<perImageVars, syncVars>>
     ELSE /\ command_buffers_' = images_
          /\ framebuffers_' = image_views_
          /\ create_sync
          /\ pc' = "idle"
  /\ command_pool_' = TRUE
  /\ UNCHANGED <<windowVars, swapchainVars, pipelineVars,
                 frame_index_, gfxQueue, localVars, returnVars, calls, entry,
                 size_zero, scCalls, upload_cb, componentVars,
                 stagingVars, call, historyVars>>

\* ----------------------------------------------------------- draw_frame

\* The results of a device call that draw_frame passes to vk_check.
CheckedResults == {"SUCCESS", "ERROR"}

\* vk_check returns (and does not throw) on r.
vk_check(r) == r = "SUCCESS"

\* The ring slot after slot i, without the wrap to slot 0.
NextFrameIndex_NoWrap(i) == i + 1

\* The ring slot after slot i.
NextFrameIndex(i) == (i + 1) % kMaxFramesInFlight

\* A fence wait that returns whether or not the fence is signaled.
FenceWaitReturns_NoWait(i) == TRUE

\* vkWaitForFences with an infinite timeout returns once the fence of
\* slot i is signaled.
FenceWaitReturns(i) == At(in_flight_, i)

\* The test after present without the acquisition result.
NeedsRecreateAfterPresent_PresentOnly(a, p) ==
  p = "OUT_OF_DATE" \/ p = "SUBOPTIMAL"

\* The test after vkQueuePresentKHR that sends draw_frame to recreation.
NeedsRecreateAfterPresent(a, p) ==
  p = "OUT_OF_DATE" \/ p = "SUBOPTIMAL" \/ a = "SUBOPTIMAL"

\* A draw_frame that reports success after a recreation.
ReturnAfterRecreate_Success == "true"

\* What draw_frame returns after recreate_swapchain_dependent.
ReturnAfterRecreate == "false"

\* A draw_frame that goes on with any acquisition result but out-of-date.
AcquireFails_Never(r) == FALSE

\* The test on acq that makes draw_frame fail.
AcquireFails(r) == r # "SUCCESS" /\ r # "SUBOPTIMAL"

\* The image indices vkAcquireNextImageKHR can hand out: every image of the
\* swapchain has been handed back by the previous calls' presents.
AcquirableImages == 0..(images_ - 1)

\* The caller enters draw_frame; `fence` is bound to the slot's fence
\* (entry.slot).
DrawFrameBegin ==
  /\ pc = "idle"
  /\ pc' = "wait"
  /\ acq' = "none"
  /\ pres' = "none"
  /\ rcSite' = "none"
  /\ calls' = <<>>
  /\ scCalls' = <<>>
  /\ vk_result' = "none"
  /\ entry' = [slot |-> frame_index_,
               fence |-> At(in_flight_, frame_index_),
               image_available |-> At(image_available_, frame_index_),
               render_finished |-> At(render_finished_, frame_index_)]
  /\ UNCHANGED <<windowVars, swapchainVars, pipelineVars, perImageVars, syncVars,
                 frame_index_, gfxQueue, image_index, returnVars,
                 command_pool_, size_zero, upload_cb, componentVars,
                 stagingVars, call, waited, reallocated,
                 stale_views>>

\* vkWaitForFences on `fence`, through vk_check.
WaitForFences ==
  /\ pc = "wait"
  /\ \E r \in CheckedResults :
       /\ r = "SUCCESS" => FenceWaitReturns(entry.slot)
       /\ vk_result' = r
       /\ pc' = IF vk_check(r) THEN "reset" ELSE "failed"
  /\ calls' = Append(calls, "wait")
  /\ waited' = waited \cup {entry.slot}
  /\ UNCHANGED <<windowVars, swapchainVars, pipelineVars, perImageVars, syncVars,
                 frame_index_, gfxQueue, localVars, returnVars, entry,
                 command_pool_, size_zero, scCalls, upload_cb, componentVars,
                 stagingVars, call, reallocated, stale_views>>

\* vkResetFences on `fence`, through vk_check.
ResetFences ==
  /\ pc = "reset"
  /\ \E r \in CheckedResults :
       /\ vk_result' = r
       /\ in_flight_' = IF r = "SUCCESS"
                        THEN Put(in_flight_, entry.slot, FALSE)
                        ELSE in_flight_
       /\ pc' = IF vk_check(r) THEN "acquire" ELSE "failed"
  /\ calls' = Append(calls, "reset")
  /\ UNCHANGED <<windowVars, swapchainVars, pipelineVars, perImageVars,
                 image_available_, render_finished_,
                 frame_index_, gfxQueue, localVars, returnVars, entry,
                 command_pool_, size_zero, scCalls, upload_cb, componentVars,
                 stagingVars, call, waited, reallocated,
                 stale_views>>

\* vkAcquireNextImageKHR with the slot's image-available semaphore, and the
\* branch on its result.  Only a successful or suboptimal acquisition queues
\* a signal on the semaphore and yields an image index.
AcquireNextImage ==
  /\ pc = "acquire"
  /\ calls' = Append(calls, "acquire")
  /\ \E r \in ResultCodes :
       /\ acq' = r
       /\ vk_result' = r
       /\ CASE r = "OUT_OF_DATE" ->
                 /\ rcSite' = "acquire"
                 /\ pc' = "rc_wait_idle"
                 /\ UNCHANGED <<image_index, image_available_>>
            [] r # "OUT_OF_DATE" /\ AcquireFails(r) ->
                 /\ pc' = "failed"
                 /\ UNCHANGED <<image_index, image_available_, rcSite>>
            [] OTHER ->
                 /\ \E idx \in AcquirableImages : image_index' = idx
                 /\ image_available_' = Put(image_available_, frame_index_, TRUE)
                 /\ pc' = "record"
                 /\ UNCHANGED rcSite
  /\ UNCHANGED <<windowVars, swapchainVars, pipelineVars, perImageVars,
                 render_finished_, in_flight_, frame_index_, gfxQueue, pres,
                 returnVars, entry,
                 command_pool_, size_zero, scCalls, upload_cb, componentVars,
                 stagingVars, call, waited, reallocated,
                 stale_views>>

\* command_buffers_.at(image_index), vkResetCommandBuffer and
\* record_command_buffer with framebuffers_.at(image_index).  at() throws
\* when the index is out of range.
RecordCommandBuffer ==
  /\ pc = "record"
  /\ IF image_index < command_buffers_ /\ image_index < framebuffers_
     THEN \E r \in CheckedResults :
            /\ vk_result' = r
            /\ pc' = IF vk_check(r) THEN "submit" ELSE "failed"
            /\ calls' = Append(calls, "record")
     ELSE /\ pc' = "failed"
          /\ UNCHANGED <<calls, vk_result>>
  /\ UNCHANGED <<windowVars, swapchainVars, pipelineVars, perImageVars, syncVars,
                 frame_index_, gfxQueue, localVars, returnVars, entry,
                 command_pool_, size_zero, scCalls, upload_cb, componentVars,
                 stagingVars, call, waited, reallocated,
                 stale_views>>

\* vkQueueSubmit: waits on image_available_[slot], signals
\* render_finished_[slot] and, on completion, `fence`.
QueueSubmit ==
  /\ pc = "submit"
  /\ \E r \in CheckedResults :
       /\ vk_result' = r
       /\ IF vk_check(r)
          THEN /\ gfxQueue' = Append(gfxQueue,
                                     [slot |-> entry.slot, cb |-> image_index])
               /\ image_available_' = Put(image_available_, frame_index_, FALSE)
               /\ render_finished_' = Put(render_finished_, frame_index_, TRUE)
               /\ pc' = "present"
          ELSE /\ pc' = "failed"
               /\ UNCHANGED <<gfxQueue, image_available_, render_finished_>>
  /\ calls' = Append(calls, "submit")
  /\ UNCHANGED <<windowVars, swapchainVars, pipelineVars, perImageVars,
                 in_flight_, frame_index_, localVars, returnVars, entry,
                 command_pool_, size_zero, scCalls, upload_cb, componentVars,
                 stagingVars, call, waited, reallocated,
                 stale_views>>


\* A present that waits on no semaphore.
PresentWaits_NoSemaphore == FALSE

\* pi.waitSemaphoreCount = 1 of draw_frame's present: it waits on the
\* slot's render-finished semaphore.
PresentWaits == TRUE

\* vkQueuePresentKHR waiting on render_finished_[slot], and the branches on
\* its result up to the recreation call or the return.
QueuePresent ==
  /\ pc = "present"
  /\ calls' = Append(calls, "present")
  /\ render_finished_' = IF PresentWaits
                         THEN Put(render_finished_, frame_index_, FALSE)
                         ELSE render_finished_
  /\ \E r \in ResultCodes :
       /\ pres' = r
       /\ vk_result' = r
       /\ CASE NeedsRecreateAfterPresent(acq, r) ->
                 /\ rcSite' = "present"
                 /\ pc' = "rc_wait_idle"
                 /\ UNCHANGED <<frame_index_, returnVars>>
            [] ~NeedsRecreateAfterPresent(acq, r) /\ r # "SUCCESS" ->
                 /\ pc' = "failed"
                 /\ UNCHANGED <<frame_index_, returnVars, rcSite>>
            [] OTHER ->
                 /\ frame_index_' = NextFrameIndex(frame_index_)
                 /\ ret' = "true"
                 /\ skippedAtAcquire' = FALSE
                 /\ pc' = "idle"
                 /\ UNCHANGED rcSite
  /\ UNCHANGED <<windowVars, swapchainVars, pipelineVars, perImageVars,
                 image_available_, in_flight_, gfxQueue, image_index, acq, entry,
                 command_pool_, size_zero, scCalls, upload_cb, componentVars,
                 stagingVars, call, waited, reallocated,
                 stale_views>>

\* The slot of a submission made with VK_NULL_HANDLE as its fence.
NoFence == -1

\* The command buffer index of an upload submission: not one of the
\* Renderer's per-image command buffers.
UploadCb == -1

\* The graphics queue completes its oldest submission and signals the
\* fence that was passed with it, if one was.
GpuComplete ==
  /\ gfxQueue # <<>>
  /\ in_flight_' = IF Head(gfxQueue).slot = NoFence
                   THEN in_flight_
                   ELSE Put(in_flight_, Head(gfxQueue).slot, TRUE)
  /\ gfxQueue' = Tail(gfxQueue)
  /\ copy_done' = IF Head(gfxQueue).cb = UploadCb /\ staging_
                   THEN TRUE
                   ELSE copy_done
  /\ UNCHANGED <<pc, windowVars, swapchainVars, pipelineVars, perImageVars,
                 image_available_, render_finished_, frame_index_,
                 localVars, returnVars, calls, entry,
                 command_pool_, size_zero, scCalls, upload_cb, componentVars,
                 staging_, call, historyVars>>

\* The window is minimized or restored.
WindowEvent ==
  /\ pc \notin {"start", "failed"}
  /\ minimized' = ~minimized
  /\ UNCHANGED <<pc, swapchainVars, pipelineVars, perImageVars, syncVars,
                 frame_index_, gfxQueue, localVars, returnVars, calls, entry,
                 command_pool_, size_zero, scCalls, upload_cb, componentVars,
                 stagingVars, call, historyVars>>

\* ------------------------------------------ recreate_swapchain_dependent

\* A recreation that keeps the command buffers it has.
CommandBuffersAfterRecreate_Keep(count, image_count) == count

\* The count of command buffers after the reallocation test of
\* recreate_swapchain_dependent: reallocated only when the image count
\* differs.
CommandBuffersAfterRecreate(count, image_count) ==
  IF count # image_count THEN image_count ELSE count

\* An entry of the record of calls of Swapchain::recreate: the call and the
\* swapchain handle it was given (0 when it takes none).
ScCall(name, handle) == [call |-> name, swapchain |-> handle]

\* A device wait that returns while submissions are still executing.
DeviceWaitIdleReturns_NoWait == TRUE

\* vkDeviceWaitIdle and vkQueueWaitIdle on the graphics queue return once
\* the queue has completed every submission.
DeviceWaitIdleReturns == gfxQueue = <<>>

\* vkDeviceWaitIdle at the top of recreate_swapchain_dependent.
RecreateWaitIdle ==
  /\ pc = "rc_wait_idle"
  /\ DeviceWaitIdleReturns
  /\ pc' = "sc_wait_size"
  /\ calls' = Append(calls, "recreate")
  /\ UNCHANGED <<windowVars, swapchainVars, pipelineVars, perImageVars, syncVars,
                 frame_index_, gfxQueue, localVars, returnVars, entry,
                 command_pool_, size_zero, scCalls, upload_cb, componentVars,
                 stagingVars, call, historyVars>>

\* The loop of Swapchain::recreate leaves on a size that is zero.
SizeLoopExits_OnZero(zero_size) == TRUE

\* The test of the size loop of Swapchain::recreate: it leaves when the
\* size read is non-zero.
SizeLoopExits(zero_size) == ~zero_size

\* Swapchain::recreate, one pass of the size loop: glfwGetFramebufferSize,
\* then glfwWaitEvents when the size read is zero.
SwapchainWaitSize ==
  /\ pc = "sc_wait_size"
  /\ pc' = IF SizeLoopExits(minimized) THEN "sc_wait_idle" ELSE "sc_wait_events"
  /\ size_zero' = minimized
  /\ UNCHANGED <<windowVars, swapchainVars, pipelineVars, perImageVars, syncVars,
                 frame_index_, gfxQueue, localVars, returnVars, calls, entry,
                 command_pool_, scCalls, upload_cb, componentVars,
                 stagingVars, call, historyVars>>

\* Swapchain::recreate, glfwWaitEvents: entered with the window minimized,
\* it returns when a window event has arrived, and the loop reads the size
\* again.
SwapchainWaitEvents ==
  /\ pc = "sc_wait_events"
  /\ ~minimized
  /\ pc' = "sc_wait_size"
  /\ UNCHANGED <<windowVars, swapchainVars, pipelineVars, perImageVars, syncVars,
                 frame_index_, gfxQueue, localVars, returnVars, calls, entry,
                 command_pool_, size_zero, scCalls, upload_cb, componentVars,
                 stagingVars, call, historyVars>>

\* Swapchain::recreate, vkDeviceWaitIdle.
SwapchainWaitIdle ==
  /\ pc = "sc_wait_idle"
  /\ DeviceWaitIdleReturns
  /\ pc' = "sc_destroy_views"
  /\ scCalls' = Append(scCalls, ScCall("vkDeviceWaitIdle", 0))
  /\ UNCHANGED <<windowVars, swapchainVars, pipelineVars, perImageVars, syncVars,
                 frame_index_, gfxQueue, localVars, returnVars, calls, entry,
                 command_pool_, size_zero, upload_cb, componentVars,
                 stagingVars, call, historyVars>>

\* Swapchain::recreate, destroy_image_views and `old = swapchain_`.
SwapchainDestroyViews ==
  /\ pc = "sc_destroy_views"
  /\ stale_views' = (framebuffers_ > 0 /\ image_views_ > 0)
  /\ image_views_' = 0
  /\ old' = swapchain_
  /\ scCalls' = Append(scCalls, ScCall("destroy_image_views", 0))
  /\ pc' = "sc_create"
  /\ UNCHANGED <<windowVars, swapchain_, liveSwapchains, image_format_, images_,
                 pipelineVars, perImageVars, syncVars,
                 frame_index_, gfxQueue, localVars, returnVars, calls, entry,
                 command_pool_, size_zero, upload_cb, componentVars,
                 stagingVars, call, waited, vk_result, reallocated>>

\* A recreation that passes no old swapchain to the creation.
OldSwapchainPassed_Null(old_swapchain) == 0

\* ci.oldSwapchain of create_swapchain: the handle recreate passes.
OldSwapchainPassed(old_swapchain) == old_swapchain

\* Swapchain::recreate, create_swapchain(ctx, window, old).
SwapchainCreate ==
  /\ pc = "sc_create"
  /\ \E formats \in FormatLists, caps \in SurfaceCaps :
       \E actual_count \in ActualImageCounts(caps) :
         IF formats = <<>>
         THEN /\ pc' = "failed"
              /\ UNCHANGED <<swapchain_, liveSwapchains, image_format_, images_, scCalls>>
         ELSE /\ create_swapchain(formats, caps, actual_count)
              /\ scCalls' = Append(scCalls,
                                   ScCall("vkCreateSwapchainKHR", OldSwapchainPassed(old)))
              /\ pc' = "sc_create_views"
  /\ UNCHANGED <<windowVars, old, image_views_, pipelineVars, perImageVars, syncVars,
                 frame_index_, gfxQueue, localVars, returnVars, calls, entry,
                 command_pool_, size_zero, upload_cb, componentVars,
                 stagingVars, call, historyVars>>

\* Swapchain::recreate, create_image_views: one view per image.
SwapchainCreateViews ==
  /\ pc = "sc_create_views"
  /\ image_views_' = images_
  /\ scCalls' = Append(scCalls, ScCall("create_image_views", 0))
  /\ pc' = "sc_destroy_old"
  /\ UNCHANGED <<windowVars, swapchain_, liveSwapchains, old, image_format_, images_,
                 pipelineVars, perImageVars, syncVars,
                 frame_index_, gfxQueue, localVars, returnVars, calls, entry,
                 command_pool_, size_zero, upload_cb, componentVars,
                 stagingVars, call, historyVars>>

\* Swapchain::recreate, vkDestroySwapchainKHR(old) when old is not null.
SwapchainDestroyOld ==
  /\ pc = "sc_destroy_old"
  /\ liveSwapchains' = IF old # 0 THEN liveSwapchains \ {old} ELSE liveSwapchains
  /\ scCalls' = IF old # 0
                THEN Append(scCalls, ScCall("vkDestroySwapchainKHR", old))
                ELSE scCalls
  /\ size_zero' = TRUE
  /\ pc' = "rc_destroy_framebuffers"
  /\ UNCHANGED <<windowVars, swapchain_, old, image_format_, images_, image_views_,
                 pipelineVars, perImageVars, syncVars,
                 frame_index_, gfxQueue, localVars, returnVars, calls, entry,
                 command_pool_, upload_cb, componentVars,
                 stagingVars, call, historyVars>>

\* recreate_swapchain_dependent, destroy_framebuffers.
RecreateDestroyFramebuffers ==
  /\ pc = "rc_destroy_framebuffers"
  /\ stale_views' = FALSE
  /\ framebuffers_' = 0
  /\ pc' = "rc_command_buffers"
  /\ UNCHANGED <<windowVars, swapchainVars, pipelineVars, command_buffers_, syncVars,
                 frame_index_, gfxQueue, localVars, returnVars, calls, entry,
                 command_pool_, size_zero, scCalls, upload_cb, componentVars,
                 stagingVars, call, waited, vk_result, reallocated>>

\* A recreation that frees and allocates the command buffers every time.
NeedsReallocation_Always(count, image_count) == TRUE

\* The test of recreate_swapchain_dependent before free_command_buffers
\* and allocate_command_buffers.
NeedsReallocation(count, image_count) == count # image_count

\* recreate_swapchain_dependent, the reallocation of the command buffers.
\* allocate_command_buffers fails on a count of 0.
RecreateCommandBuffers ==
  /\ pc = "rc_command_buffers"
  /\ IF NeedsReallocation(command_buffers_, images_) /\ images_ = 0
     THEN /\ pc' = "failed"
          /\ UNCHANGED <<command_buffers_, reallocated>>
     ELSE /\ command_buffers_' = CommandBuffersAfterRecreate(command_buffers_, images_)
          /\ reallocated' = NeedsReallocation(command_buffers_, images_)
          /\ pc' = "rc_create_framebuffers"
  /\ UNCHANGED <<windowVars, swapchainVars, pipelineVars, framebuffers_, syncVars,
                 frame_index_, gfxQueue, localVars, returnVars, calls, entry,
                 command_pool_, size_zero, scCalls, upload_cb, componentVars,
                 stagingVars, call, waited, vk_result, stale_views>>

\* recreate_swapchain_dependent, create_framebuffers against the pipeline's
\* render pass: one framebuffer per image view.
RecreateCreateFramebuffers ==
  /\ pc = "rc_create_framebuffers"
  /\ framebuffers_' = image_views_
  /\ pc' = "rc_return"
  /\ UNCHANGED <<windowVars, swapchainVars, pipelineVars, command_buffers_, syncVars,
                 frame_index_, gfxQueue, localVars, returnVars, calls, entry,
                 command_pool_, size_zero, scCalls, upload_cb, componentVars,
                 stagingVars, call, historyVars>>

\* draw_frame's return after recreate_swapchain_dependent: the early
\* return leaves the ring slot, the return after present advances it.
DrawFrameReturnAfterRecreate ==
  /\ pc = "rc_return"
  /\ frame_index_' = IF rcSite = "present"
                     THEN NextFrameIndex(frame_index_)
                     ELSE frame_index_
  /\ ret' = ReturnAfterRecreate
  /\ skippedAtAcquire' = (rcSite = "acquire")
  /\ reallocated' = FALSE
  /\ pc' = "idle"
  /\ UNCHANGED <<windowVars, swapchainVars, pipelineVars, perImageVars, syncVars,
                 gfxQueue, localVars, calls, entry,
                 command_pool_, size_zero, scCalls, upload_cb, componentVars,
                 stagingVars, call, waited, vk_result, stale_views>>

\* ---------------------------------------------------------------- Upload

\* The submission of Upload::end_and_submit: one command buffer, no
\* semaphores, no fence.
UploadSubmission == [slot |-> NoFence, cb |-> UploadCb]

\* An upload submission has not completed.
UploadPending == \E k \in 1..Len(gfxQueue) : gfxQueue[k] = UploadSubmission

\* Buffer::init_device_local_with_staging up to the copy: the staging
\* buffer is created and filled through the mapped path, and the
\* device-local destination is created.
StagingCreate ==
  /\ pc = "pl_ready"
  /\ staging_' = TRUE
  /\ copy_done' = FALSE
  /\ pc' = "st_ready"
  /\ UNCHANGED <<windowVars, swapchainVars, pipelineVars, perImageVars, syncVars,
                 frame_index_, gfxQueue, localVars, returnVars, calls, entry,
                 command_pool_, size_zero, scCalls, upload_cb, componentVars,
                 call, historyVars>>

\* Buffer::init_device_local_with_staging after the uploader has returned:
\* the staging buffer is destroyed.
StagingDestroy ==
  /\ pc = "st_copied"
  /\ staging_' = FALSE
  /\ pc' = "st_return"
  /\ UNCHANGED <<windowVars, swapchainVars, pipelineVars, perImageVars, syncVars,
                 frame_index_, gfxQueue, localVars, returnVars, calls, entry,
                 command_pool_, size_zero, scCalls, upload_cb, componentVars,
                 copy_done, call, historyVars>>

\* Buffer::init_device_local_with_staging returns: the copy it issued is
\* nobody's concern any more.
StagingReturn ==
  /\ pc = "st_return"
  /\ copy_done' = FALSE
  /\ pc' = "pl_ready"
  /\ UNCHANGED <<windowVars, swapchainVars, pipelineVars, perImageVars, syncVars,
                 frame_index_, gfxQueue, localVars, returnVars, calls, entry,
                 command_pool_, size_zero, scCalls, upload_cb, componentVars,
                 staging_, call, historyVars>>

\* Upload::begin, called at mesh load time before the Renderer is
\* initialized, by a caller of its own or for the staging copy: allocates
\* a command buffer and begins recording.
UploadBegin ==
  /\ pc \in {"pl_ready", "st_ready"}
  /\ upload_cb' = TRUE
  /\ pc' = "up_recording"
  /\ UNCHANGED <<windowVars, swapchainVars, pipelineVars, perImageVars, syncVars,
                 frame_index_, gfxQueue, localVars, returnVars, calls, entry,
                 command_pool_, size_zero, scCalls, componentVars,
                 stagingVars, call, historyVars>>

\* Upload::end_and_submit, vkEndCommandBuffer and vkQueueSubmit.
UploadSubmit ==
  /\ pc = "up_recording"
  /\ gfxQueue' = Append(gfxQueue, UploadSubmission)
  /\ pc' = "up_wait_idle"
  /\ UNCHANGED <<windowVars, swapchainVars, pipelineVars, perImageVars, syncVars,
                 frame_index_, localVars, returnVars, calls, entry,
                 command_pool_, size_zero, scCalls, upload_cb, componentVars,
                 stagingVars, call, historyVars>>

\* Upload::end_and_submit once vkQueueWaitIdle has returned:
\* vkFreeCommandBuffers and the return.
UploadFree ==
  /\ pc = "up_wait_idle"
  /\ DeviceWaitIdleReturns
  /\ upload_cb' = FALSE
  /\ pc' = IF staging_ THEN "st_copied" ELSE "pl_ready"
  /\ UNCHANGED <<windowVars, swapchainVars, pipelineVars, perImageVars, syncVars,
                 frame_index_, gfxQueue, localVars, returnVars, calls, entry,
                 command_pool_, size_zero, scCalls, componentVars,
                 stagingVars, call, historyVars>>

\* ---------------------------------------------------- Renderer::shutdown

\* Renderer::shutdown is called between two frames, or again after it has
\* returned.
RendererShutdownBegin ==
  /\ pc \in {"idle", "down"}
  /\ pc' = "sd_wait_idle"
  /\ UNCHANGED <<windowVars, swapchainVars, pipelineVars, perImageVars, syncVars,
                 frame_index_, gfxQueue, localVars, returnVars, calls, entry,
                 command_pool_, size_zero, scCalls, upload_cb, componentVars,
                 stagingVars, call, historyVars>>

\* Renderer::shutdown once vkDeviceWaitIdle has returned: destroy_sync,
\* destroy_framebuffers, free_command_buffers, the command pool, and
\* frame_index_ = 0.
RendererShutdown ==
  /\ pc = "sd_wait_idle"
  /\ stale_views' = FALSE
  /\ DeviceWaitIdleReturns
  /\ image_available_' = <<>>
  /\ render_finished_' = <<>>
  /\ in_flight_' = <<>>
  /\ framebuffers_' = 0
  /\ command_buffers_' = 0
  /\ command_pool_' = FALSE
  /\ frame_index_' = 0
  /\ pc' = "down"
  /\ UNCHANGED <<windowVars, swapchainVars, pipelineVars, gfxQueue, localVars,
                 returnVars, calls, entry, size_zero, scCalls, upload_cb,
                 componentVars,
                 stagingVars, call, waited, vk_result, reallocated>>

\* --------------------------------------------------- component lifetimes

Components ==
  {"Context", "Upload", "Buffer", "Image", "Swapchain", "Pipeline",
   "Renderer", "Mesh", "Depth"}

\* A step of an init: a create stores its handle in a member field or in a
\* local of the call; `fails` says the step's input makes it fail.
Create(name) == [op |-> "create", obj |-> name, field |-> TRUE, fails |-> FALSE]
CreateLocal(name) == [op |-> "create", obj |-> name, field |-> FALSE, fails |-> FALSE]
DestroyLocal(name) == [op |-> "destroy", obj |-> name, field |-> FALSE, fails |-> FALSE]
Check(name, failing) == [op |-> "check", obj |-> name, field |-> FALSE, fails |-> failing]

\* A test of the call's arguments alone: it fails exactly when `failing`.
Test(name, failing) == [op |-> "test", obj |-> name, field |-> FALSE, fails |-> failing]

\* A step of a shutdown: `obj` is destroyed when every handle of `guard`
\* is not null.
DestroyIf(name, nonnull) == [obj |-> name, guard |-> nonnull]

\* The .spv files Pipeline::init can be given.
SpirvFiles ==
  {[exists |-> FALSE, size |-> 0]} \cup
  {[exists |-> TRUE, size |-> n] : n \in 0..MaxSpirvBytes}

\* A loader that accepts a size that is not a multiple of 4.
read_spirv_fails_NoAlignment(file) == ~file.exists \/ file.size <= 0

\* read_spirv fails on a file that cannot be opened, is empty or whose
\* size is not a multiple of 4.
read_spirv_fails(file) ==
  ~file.exists \/ file.size <= 0 \/ file.size % 4 # 0

\* The lengths of the data given to a mesh: none, one element, the most.
DataSizes(most) == {0, 1, most}

\* The inputs of a component's init.
Inputs(c) ==
  CASE c = "Context" -> [window : BOOLEAN, debug : BOOLEAN]
    [] c = "Pipeline" -> [vert : SpirvFiles, frag : SpirvFiles]
    [] c = "Mesh" -> [vertices : DataSizes(MaxVertices),
                      indices : DataSizes(MaxIndices)]
    [] c = "Buffer" -> [size : 0..1]
    [] c = "Renderer" -> [image_count : 0..1]
    [] c = "Swapchain" -> [window : BOOLEAN, formats : 0..1]
    [] c \in {"Image", "Depth"} -> [extent_zero : BOOLEAN]
    [] OTHER -> {[none |-> TRUE]}

\* Context::init: the instance, the debug messenger when validation and
\* debug utils are enabled, the surface, the physical device, the device,
\* then the uploader and its command pool.
ContextInitSteps(input) ==
  <<Check("window", ~input.window), Create("instance_")>> \o
  (IF input.debug THEN <<Create("debug_messenger_")>> ELSE <<>>) \o
  <<Create("surface_"), Check("pick_physical_device", FALSE),
    Create("device_"), Create("upload_"), Create("upload_->command_pool_")>>

\* A shutdown that destroys the device before the uploader.
ContextShutdownSteps_DeviceFirst ==
  <<DestroyIf("device_", {"device_"}),
    DestroyIf("upload_->command_pool_", {"upload_", "upload_->command_pool_"}),
    DestroyIf("upload_", {"upload_"}),
    DestroyIf("surface_", {"surface_", "instance_"}),
    DestroyIf("debug_messenger_", {"debug_messenger_", "instance_"}),
    DestroyIf("instance_", {"instance_"})>>

\* Context::shutdown: destroy_uploader (Upload::shutdown only with a
\* device, then delete), the device, the surface and the debug messenger
\* (each only with an instance), the instance.
ContextShutdownSteps ==
  <<DestroyIf("upload_->command_pool_",
              {"upload_", "device_", "upload_->command_pool_"}),
    DestroyIf("upload_", {"upload_"}),
    DestroyIf("device_", {"device_"}),
    DestroyIf("surface_", {"surface_", "instance_"}),
    DestroyIf("debug_messenger_", {"debug_messenger_", "instance_"}),
    DestroyIf("instance_", {"instance_"})>>

\* Upload::init: the command pool.
UploadInitSteps == <<Create("command_pool_")>>

\* Upload::shutdown: the command pool.
UploadShutdownSteps == <<DestroyIf("command_pool_", {"command_pool_"})>>

\* Buffer::init: the size test, vkCreateBuffer, vkAllocateMemory,
\* vkBindBufferMemory.
BufferInitSteps(input) ==
  <<Check("size", input.size = 0), Create("buffer_"), Create("memory_"),
    Check("vkBindBufferMemory", FALSE)>>

\* Buffer::shutdown on the Buffer whose fields are prefixed by `b`.
BufferShutdownSteps(b) ==
  <<DestroyIf(b \o "buffer_", {b \o "buffer_"}),
    DestroyIf(b \o "memory_", {b \o "memory_"})>>

\* Image::init_2d on the Image whose fields are prefixed by `i`: the
\* extent test, the image, its memory, the binding, the view.
ImageInitSteps(i, input) ==
  <<Check("extent", input.extent_zero),
    Create(i \o "image_"), Create(i \o "memory_"),
    Check("vkBindImageMemory", FALSE), Create(i \o "view_")>>

\* Image::shutdown: the view, the image, the memory.
ImageShutdownSteps(i) ==
  <<DestroyIf(i \o "view_", {i \o "view_"}),
    DestroyIf(i \o "image_", {i \o "image_"}),
    DestroyIf(i \o "memory_", {i \o "memory_"})>>

\* Swapchain::init: the window test, choose_surface_format, the swapchain,
\* the image views.
SwapchainInitSteps(input) ==
  <<Check("window", ~input.window),
    Check("choose_surface_format", input.formats = 0),
    Create("swapchain_"), Create("image_views_")>>

\* Swapchain::shutdown: destroy_image_views, then the swapchain.
SwapchainShutdownSteps ==
  <<DestroyIf("image_views_", {"image_views_"}),
    DestroyIf("swapchain_", {"swapchain_"})>>

\* Pipeline::init: the render pass, the two shader modules (each read by
\* read_spirv, held in locals), the layout, the pipeline, and on success
\* the destruction of the two shader modules.
PipelineInitSteps(input) ==
  <<Create("render_pass_"),
    Check("read_spirv(vert)", read_spirv_fails(input.vert)), CreateLocal("vert"),
    Check("read_spirv(frag)", read_spirv_fails(input.frag)), CreateLocal("frag"),
    Create("pipeline_layout_"), Create("pipeline_"),
    DestroyLocal("frag"), DestroyLocal("vert")>>

\* Pipeline::shutdown: the pipeline, the layout, the render pass.
PipelineShutdownSteps ==
  <<DestroyIf("pipeline_", {"pipeline_"}),
    DestroyIf("pipeline_layout_", {"pipeline_layout_"}),
    DestroyIf("render_pass_", {"render_pass_"})>>

\* Renderer::init: the command pool, the command buffers (a count of 0 is
\* fatal), the framebuffers, the sync objects.
RendererInitSteps(input) ==
  <<Create("command_pool_"),
    Check("count", input.image_count = 0), Create("command_buffers_"),
    Create("framebuffers_"),
    Create("image_available_"), Create("render_finished_"), Create("in_flight_")>>

\* Renderer::shutdown: destroy_sync, destroy_framebuffers,
\* free_command_buffers (which frees only with a pool), the command pool.
RendererShutdownSteps ==
  <<DestroyIf("in_flight_", {"in_flight_"}),
    DestroyIf("render_finished_", {"render_finished_"}),
    DestroyIf("image_available_", {"image_available_"}),
    DestroyIf("framebuffers_", {"framebuffers_"}),
    DestroyIf("command_buffers_", {"command_buffers_", "command_pool_"}),
    DestroyIf("command_pool_", {"command_pool_"})>>

\* Buffer::init_device_local_with_staging on the Buffer whose fields are
\* prefixed by `b`: a temporary staging buffer, the device-local buffer,
\* the blocking copy, then the staging buffer is destroyed.
init_device_local_with_staging(b) ==
  <<CreateLocal(b \o "staging.buffer_"), CreateLocal(b \o "staging.memory_"),
    Create(b \o "buffer_"), Create(b \o "memory_"),
    Check("copy", FALSE),
    DestroyLocal(b \o "staging.buffer_"), DestroyLocal(b \o "staging.memory_")>>

\* An init_from_data that allocates the Impl before it tests its inputs.
MeshInitSteps_AllocateFirst(input) ==
  <<Create("impl_"), Test("empty", input.vertices = 0 \/ input.indices = 0)>> \o
  init_device_local_with_staging("vb.") \o
  init_device_local_with_staging("ib.")

\* Mesh::init_from_data: the test for empty inputs, the Impl, the vertex
\* buffer, the index buffer.
MeshInitSteps(input) ==
  <<Test("empty", input.vertices = 0 \/ input.indices = 0), Create("impl_")>> \o
  init_device_local_with_staging("vb.") \o
  init_device_local_with_staging("ib.")

\* Guards each step of a nested shutdown by the owner's pointer.
Within(owner, steps) ==
  [k \in 1..Len(steps) |->
     DestroyIf(steps[k].obj, steps[k].guard \cup {owner})]

\* A shutdown that leaves the index buffer alone.
MeshShutdownSteps_NoIndexBuffer ==
  Within("impl_", BufferShutdownSteps("vb.")) \o
  <<DestroyIf("impl_", {"impl_"})>>

\* Mesh::shutdown: with an Impl, the index buffer, the vertex buffer, the
\* Impl.
MeshShutdownSteps ==
  Within("impl_", BufferShutdownSteps("ib.") \o BufferShutdownSteps("vb.")) \o
  <<DestroyIf("impl_", {"impl_"})>>

\* Depth::init: pick_format, the Image, Image::init_2d.
DepthInitSteps(input) ==
  <<Check("pick_format", FALSE), Create("image_")>> \o
  ImageInitSteps("image_->", input)

\* Depth::shutdown: with an Image, Image::shutdown and the delete.
DepthShutdownSteps ==
  Within("image_", ImageShutdownSteps("image_->")) \o
  <<DestroyIf("image_", {"image_"})>>

\* The steps of the component's init.
InitSteps(c, input) ==
  CASE c = "Context" -> ContextInitSteps(input)
    [] c = "Upload" -> UploadInitSteps
    [] c = "Buffer" -> BufferInitSteps(input)
    [] c = "Image" -> ImageInitSteps("", input)
    [] c = "Swapchain" -> SwapchainInitSteps(input)
    [] c = "Pipeline" -> PipelineInitSteps(input)
    [] c = "Renderer" -> RendererInitSteps(input)
    [] c = "Mesh" -> MeshInitSteps(input)
    [] c = "Depth" -> DepthInitSteps(input)

\* The steps of the component's shutdown.
ShutdownSteps(c) ==
  CASE c = "Context" -> ContextShutdownSteps
    [] c = "Upload" -> UploadShutdownSteps
    [] c = "Buffer" -> BufferShutdownSteps("")
    [] c = "Image" -> ImageShutdownSteps("")
    [] c = "Swapchain" -> SwapchainShutdownSteps
    [] c = "Pipeline" -> PipelineShutdownSteps
    [] c = "Renderer" -> RendererShutdownSteps
    [] c = "Mesh" -> MeshShutdownSteps
    [] c = "Depth" -> DepthShutdownSteps

\* The steps an init can fail at: a create or a check the device rejects,
\* or the first step its input makes fail; Len(steps) + 1 is success.
FailPoints(steps) ==
  {k \in 1..(Len(steps) + 1) :
     /\ \A j \in 1..(k - 1) : ~steps[j].fails
     /\ k <= Len(steps) => steps[k].op # "destroy"
     /\ k <= Len(steps) => (steps[k].op = "test" => steps[k].fails)}

\* The objects live after the steps before step k have run.
CreatedBefore(steps, k) ==
  {steps[j].obj : j \in {i \in 1..(k - 1) : steps[i].op = "create"}} \
  {steps[j].obj : j \in {i \in 1..(k - 1) : steps[i].op = "destroy"}}

\* The member fields set by the steps before step k.
FieldsSetBefore(steps, k) ==
  {steps[j].obj : j \in {i \in 1..(k - 1) :
                          steps[i].op = "create" /\ steps[i].field}}

\* A shutdown that leaves the handle it destroyed in its field.
NullAfterDestroy_Keep(fields, name) == fields

\* `h = VK_NULL_HANDLE` (or `p = nullptr`) after the destroy.
NullAfterDestroy(fields, name) == fields \ {name}

\* Runs the steps of a shutdown in order on the state st.
RECURSIVE RunShutdown(_, _)
RunShutdown(steps, st) ==
  IF steps = <<>>
  THEN st
  ELSE LET step == Head(steps)
       IN RunShutdown(Tail(steps),
            IF step.guard \subseteq st.handles
            THEN [handles |-> NullAfterDestroy(st.handles, step.obj),
                  live |-> st.live \ {step.obj},
                  destroyed |-> Append(st.destroyed,
                                       [obj |-> step.obj, live |-> st.live]),
                  invalid |-> \/ st.invalid
                              \/ step.obj \notin st.handles
                              \/ step.obj \notin st.live]
            ELSE st)

\* The last element of a non-empty sequence.
Last(seq) == seq[Len(seq)]

\* An object of one of the components is constructed: all handles null.
ComponentConstruct ==
  /\ active = "none"
  /\ \E c \in Components : active' = c
  /\ UNCHANGED <<pc, windowVars, swapchainVars, pipelineVars, perImageVars,
                 syncVars, frame_index_, gfxQueue, localVars, returnVars, calls,
                 entry, command_pool_, size_zero, scCalls, upload_cb,
                 handles, liveObjects, destroyed, invalidDestroy, ops, counts,
                 stagingVars, call, historyVars>>

\* The components whose init begins with a "called twice" test, and the
\* field each tests.
InitGuard ==
  [Upload |-> "command_pool_", Mesh |-> "impl_", Depth |-> "image_"]

\* An init that runs whatever the object holds.
CalledTwice_NoTest(c, fields) == FALSE

\* The "called twice" test of the component's init fails the call.
CalledTwice(c, fields) ==
  IF c \in DOMAIN InitGuard THEN InitGuard[c] \in fields ELSE FALSE

\* failedAt of an init that its "called twice" test failed.
CalledTwiceStep == -1

\* vertex_count_ and index_count_ after the steps before step k of
\* Mesh::init_from_data: both are set once the Impl is allocated.
CountsAfterInit(c, input, steps, k, before) ==
  IF c = "Mesh" /\ "impl_" \in FieldsSetBefore(steps, k)
  THEN [vertex_count_ |-> input.vertices, index_count_ |-> input.indices]
  ELSE before

\* vertex_count_ and index_count_ after the component's shutdown.
CountsAfterShutdown(c, before) ==
  IF c = "Mesh" THEN [vertex_count_ |-> 0, index_count_ |-> 0] ELSE before

\* init is called on the object as constructed or as shutdown left it, or
\* again on an object whose init tests for a second call, and runs up to
\* the step that fails.
ComponentInit ==
  /\ active # "none"
  /\ Len(ops) < MaxCalls
  /\ IF ops = <<>> \/ active \in DOMAIN InitGuard
     THEN TRUE
     ELSE Last(ops).call = "shutdown"
  /\ \E input \in Inputs(active) :
       LET steps == InitSteps(active, input)
       IN IF CalledTwice(active, handles)
          THEN /\ ops' = Append(ops, [call |-> "init",
                                      failedAt |-> CalledTwiceStep,
                                      input |-> input])
               /\ UNCHANGED <<handles, liveObjects, counts>>
          ELSE \E k \in FailPoints(steps) :
                 /\ handles' = handles \cup FieldsSetBefore(steps, k)
                 /\ liveObjects' = liveObjects \cup CreatedBefore(steps, k)
                 /\ counts' = CountsAfterInit(active, input, steps, k, counts)
                 /\ ops' = Append(ops, [call |-> "init",
                                        failedAt |-> IF k > Len(steps)
                                                     THEN 0 ELSE k,
                                        input |-> input])
  /\ UNCHANGED <<pc, windowVars, swapchainVars, pipelineVars, perImageVars,
                 syncVars, frame_index_, gfxQueue, localVars, returnVars, calls,
                 entry, command_pool_, size_zero, scCalls, upload_cb,
                 active, destroyed, invalidDestroy, stagingVars, call, historyVars>>

\* The points Swapchain::recreate can fail at, in order: the window test,
\* vkDeviceWaitIdle, choose_surface_format and vkCreateSwapchainKHR (both
\* before swapchain_ is assigned), vkGetSwapchainImagesKHR, the first
\* vkCreateImageView and a later one; "none" is success.
RecreateFailPoints ==
  <<"window", "vkDeviceWaitIdle", "choose_surface_format",
    "vkCreateSwapchainKHR", "vkGetSwapchainImagesKHR",
    "vkCreateImageView(first)", "vkCreateImageView(later)", "none">>

\* The position of the fail point in RecreateFailPoints.
FailPosition(f) == CHOOSE k \in 1..Len(RecreateFailPoints) : RecreateFailPoints[k] = f

\* The fail point comes after point p: point p has succeeded.
Past(f, p) == FailPosition(f) > FailPosition(p)

\* The name of a swapchain that no field holds any more: the `old` local
\* of Swapchain::recreate.
OldSwapchain == "old swapchain"

\* Swapchain::recreate on the fields and live objects st, failing at f:
\* destroy_image_views, `old = swapchain_`, create_swapchain (which assigns
\* swapchain_ once the creation succeeded), create_image_views (whose views
\* created before a failure stay in image_views_), and the destruction of
\* `old` when it is not null.
recreate(st, f) ==
  LET viewsGone == Past(f, "vkDeviceWaitIdle")
      hadOld == "swapchain_" \in st.handles
      oldLive == "swapchain_" \in st.live
      created == Past(f, "vkCreateSwapchainKHR")
      views == Past(f, "vkCreateImageView(first)")
      oldDestroyed == hadOld /\ f = "none"
      h1 == IF viewsGone THEN st.handles \ {"image_views_"} ELSE st.handles
      l1 == IF viewsGone THEN st.live \ {"image_views_"} ELSE st.live
      h2 == IF created THEN h1 \cup {"swapchain_"} ELSE h1
      l2 == IF created
            THEN (l1 \cup {"swapchain_"}) \cup
                 (IF oldLive /\ ~oldDestroyed THEN {OldSwapchain} ELSE {})
            ELSE l1
  IN [handles |-> IF views THEN h2 \cup {"image_views_"} ELSE h2,
      live |-> IF views THEN l2 \cup {"image_views_"} ELSE l2,
      invalid |-> oldDestroyed /\ ~oldLive]

\* Swapchain::recreate is called on the Swapchain, whatever was called
\* before, and runs up to the point that fails.
ComponentRecreate ==
  /\ active = "Swapchain"
  /\ Len(ops) < MaxCalls
  /\ \E k \in 1..Len(RecreateFailPoints) :
       LET f == RecreateFailPoints[k]
           st == recreate([handles |-> handles, live |-> liveObjects], f)
       IN /\ handles' = st.handles
          /\ liveObjects' = st.live
          /\ invalidDestroy' = (invalidDestroy \/ st.invalid)
          /\ ops' = Append(ops, [call |-> "recreate",
                                 failedAt |-> IF f = "none" THEN 0 ELSE k,
                                 input |-> [none |-> TRUE]])
  /\ UNCHANGED <<pc, windowVars, swapchainVars, pipelineVars, perImageVars,
                 syncVars, frame_index_, gfxQueue, localVars, returnVars, calls,
                 entry, command_pool_, size_zero, scCalls, upload_cb,
                 active, destroyed, counts, stagingVars, call, historyVars>>

\* shutdown is called on the object, whatever was called before.
ComponentShutdown ==
  /\ active # "none"
  /\ Len(ops) < MaxCalls
  /\ LET st == RunShutdown(ShutdownSteps(active),
                           [handles |-> handles, live |-> liveObjects,
                            destroyed |-> <<>>, invalid |-> invalidDestroy])
     IN /\ handles' = st.handles
        /\ liveObjects' = st.live
        /\ destroyed' = st.destroyed
        /\ invalidDestroy' = st.invalid
  /\ counts' = CountsAfterShutdown(active, counts)
  /\ ops' = Append(ops, [call |-> "shutdown", failedAt |-> 0,
                         input |-> [none |-> TRUE]])
  /\ UNCHANGED <<pc, windowVars, swapchainVars, pipelineVars, perImageVars,
                 syncVars, frame_index_, gfxQueue, localVars, returnVars, calls,
                 entry, command_pool_, size_zero, scCalls, upload_cb, active,
                 stagingVars, call, historyVars>>

\* -------------------------------------------------------- free functions

\* Every variable but `call`: what a call of a free function leaves alone.
programVars == <<pc, windowVars, swapchainVars, pipelineVars, perImageVars,
                 syncVars, frame_index_, gfxQueue, localVars, returnVars, calls,
                 entry, command_pool_, size_zero, scCalls, upload_cb,
                 componentVars, stagingVars, historyVars>>

\* VkMemoryPropertyFlags: the sets of property bits.
MemoryPropertyFlags == SUBSET {"DEVICE_LOCAL", "HOST_VISIBLE"}

\* VkPhysicalDeviceMemoryProperties: the propertyFlags of memoryTypes[0]
\* to memoryTypes[memoryTypeCount - 1].
MemoryProperties == SeqsUpTo(MemoryPropertyFlags, MaxMemoryTypes)

\* type_bits & (1u << i) != 0u.
BitSet(bits, i) == (bits \div (2 ^ i)) % 2 = 1

\* A test that accepts a type offering any one of the requested flags.
props_ok_Any(flags, props) == flags \cap props # {}

\* (propertyFlags & props) == props.
props_ok(flags, props) == flags \cap props = props

\* The loop of find_memory_type from index i on: the first index whose bit
\* is set in type_bits and whose flags include props, or the failure.
RECURSIVE find_memory_type_from(_, _, _, _)
find_memory_type_from(mem, type_bits, props, i) ==
  IF i >= Len(mem)
  THEN [failed |-> TRUE, index |-> 0]
  ELSE IF BitSet(type_bits, i) /\ props_ok(mem[i + 1], props)
       THEN [failed |-> FALSE, index |-> i]
       ELSE find_memory_type_from(mem, type_bits, props, i + 1)

\* find_memory_type of Buffer.cc and of Image.cc.
find_memory_type(mem, type_bits, props) ==
  find_memory_type_from(mem, type_bits, props, 0)

\* The caller has used the result of the last call.
CallReturn ==
  /\ call # NoCall
  /\ call' = NoCall
  /\ UNCHANGED programVars

\* Every pair of image-count limits a uint32_t pair can hold in which the
\* maximum, when there is one, is not below the minimum.
AllSurfaceCaps ==
  {c \in [minImageCount : 0..Uint32Max, maxImageCount : 0..Uint32Max] :
     c.maxImageCount = 0 \/ c.maxImageCount >= c.minImageCount}

\* The image count computation of create_swapchain.
ImageCount ==
  /\ call = NoCall
  /\ \E caps \in AllSurfaceCaps :
       call' = [fn |-> "image_count", args |-> caps,
                result |-> RequestedImageCount(caps)]
  /\ UNCHANGED programVars

\* The largest std::size_t, and the sum of two of them as the machine
\* computes it.
SizeMax == 2 ^ SizeBits - 1
SizeAdd(a, b) == (a + b) % (SizeMax + 1)

\* Buffer::upload on a buffer of size_ bytes: the two tests, vkMapMemory
\* (which returns an error when map_ok is false) and the memcpy. The result
\* tells whether the call failed, whether vkMapMemory was called, and the
\* byte offsets of the allocation that were written.
upload(data_null, size, offset, size_, map_ok) ==
  IF data_null
  THEN [failed |-> TRUE, map_called |-> FALSE, written |-> {}]
  ELSE IF SizeAdd(offset, size) > size_
       THEN [failed |-> TRUE, map_called |-> FALSE, written |-> {}]
       ELSE IF ~map_ok
            THEN [failed |-> TRUE, map_called |-> TRUE, written |-> {}]
            ELSE [failed |-> FALSE, map_called |-> TRUE,
                  written |-> offset..(offset + size - 1)]

\* A call of Buffer::upload.
BufferUpload ==
  /\ call = NoCall
  /\ \E data_null \in BOOLEAN, size \in 0..SizeMax, offset \in 0..SizeMax,
        size_ \in 0..SizeMax, map_ok \in BOOLEAN :
       call' = [fn |-> "upload",
                args |-> [data_null |-> data_null, size |-> size,
                          offset |-> offset, size_ |-> size_],
                result |-> upload(data_null, size, offset, size_, map_ok)]
  /\ UNCHANGED programVars

\* graphics_queue_family_ and present_queue_family_ before a device is
\* picked (UINT32_MAX), and an optional index without a value.
NoFamily == -1

\* VkQueueFamilyProperties with the answer of
\* vkGetPhysicalDeviceSurfaceSupportKHR for the family.
QueueFamilies == [graphics : BOOLEAN, present : BOOLEAN]

\* A physical device: its queue families in index order, and whether its
\* extensions include VK_KHR_swapchain.
PhysicalDevices ==
  [families : SeqsUpTo(QueueFamilies, MaxFamilies), swapchain_ext : BOOLEAN]

\* QueueFamilyIndices::complete.
complete(indices) == indices.graphics # NoFamily /\ indices.present # NoFamily

\* The loop of find_queue_families from family i on.
RECURSIVE find_queue_families_from(_, _, _)
find_queue_families_from(families, indices, i) ==
  IF i >= Len(families)
  THEN indices
  ELSE LET q == families[i + 1]
           found == [graphics |-> IF q.graphics THEN i ELSE indices.graphics,
                     present |-> IF q.present THEN i ELSE indices.present]
       IN IF complete(found)
          THEN found
          ELSE find_queue_families_from(families, found, i + 1)

\* find_queue_families.
find_queue_families(pd) ==
  find_queue_families_from(pd.families,
                           [graphics |-> NoFamily, present |-> NoFamily], 0)

\* A test that does not ask for the swapchain extension.
DeviceSuitable_NoExtension(pd) == complete(find_queue_families(pd))

\* The two tests of the loop of pick_physical_device.
DeviceSuitable(pd) ==
  complete(find_queue_families(pd)) /\ pd.swapchain_ext

\* The loop of pick_physical_device from the k-th device on. A device is
\* named by its place in the enumeration, 0 being VK_NULL_HANDLE.
RECURSIVE pick_physical_device_from(_, _)
pick_physical_device_from(devices, k) ==
  IF k > Len(devices)
  THEN [failed |-> TRUE, physical_device_ |-> 0,
        graphics_queue_family_ |-> NoFamily, present_queue_family_ |-> NoFamily]
  ELSE IF DeviceSuitable(devices[k])
       THEN LET qf == find_queue_families(devices[k])
            IN [failed |-> FALSE, physical_device_ |-> k,
                graphics_queue_family_ |-> qf.graphics,
                present_queue_family_ |-> qf.present]
       ELSE pick_physical_device_from(devices, k + 1)

\* Context::pick_physical_device on a Context that has no device yet.
pick_physical_device(devices) == pick_physical_device_from(devices, 1)

\* A call of Context::pick_physical_device.
PickPhysicalDevice ==
  /\ call = NoCall
  /\ \E count \in 0..MaxDevices :
       \E devices \in [1..count -> PhysicalDevices] :
         call' = [fn |-> "pick_physical_device", args |-> devices,
                  result |-> pick_physical_device(devices)]
  /\ UNCHANGED programVars

\* A startup step of main: the object it creates ("" for a step that only
\* tests) and the calls main makes before exiting when the step fails.
StartupStep(name, object, cleanup) ==
  [step |-> name, creates |-> object, cleanup |-> cleanup]

\* The startup of main up to the event loop. The three last steps go
\* through vk_check, which exits the process at once.
MainSteps ==
  <<StartupStep("glfwInit", "glfw", <<>>),
    StartupStep("glfwVulkanSupported", "", <<"glfw">>),
    StartupStep("glfwCreateWindow", "window", <<"glfw">>),
    StartupStep("glfwGetRequiredInstanceExtensions", "", <<"window", "glfw">>),
    StartupStep("vkCreateInstance", "instance", <<>>),
    StartupStep("vkCreateDebugUtilsMessengerEXT", "debug_messenger", <<>>),
    StartupStep("glfwCreateWindowSurface", "surface", <<>>)>>

\* What main destroys after the event loop, in order.
MainTeardown == <<"surface", "debug_messenger", "instance", "window", "glfw">>

\* The objects the first n startup steps created, in order of creation.
RECURSIVE CreatedByMain(_)
CreatedByMain(n) ==
  IF n = 0
  THEN <<>>
  ELSE IF MainSteps[n].creates = ""
       THEN CreatedByMain(n - 1)
       ELSE Append(CreatedByMain(n - 1), MainSteps[n].creates)

\* main when startup step k fails (k = Len(MainSteps) + 1: none fails and
\* the window is closed): the objects created, and those destroyed before
\* the process exits, both in order.
main(k) ==
  [failed |-> k <= Len(MainSteps),
   created |-> CreatedByMain(k - 1),
   destroyed |-> IF k <= Len(MainSteps) THEN MainSteps[k].cleanup
                 ELSE MainTeardown]

\* A run of main.
Main ==
  /\ call = NoCall
  /\ \E k \in 1..(Len(MainSteps) + 1) :
       call' = [fn |-> "main", args |-> k, result |-> main(k)]
  /\ UNCHANGED programVars

\* A call of choose_surface_format: it fails on an empty list.
ChooseSurfaceFormat ==
  /\ call = NoCall
  /\ \E formats \in FormatLists :
       call' = [fn |-> "choose_surface_format", args |-> formats,
                result |-> IF formats = <<>>
                           THEN [failed |-> TRUE]
                           ELSE [failed |-> FALSE,
                                 format |-> choose_surface_format(formats)]]
  /\ UNCHANGED programVars

\* VkPresentModeKHR values.
PresentModes == {"IMMEDIATE", "MAILBOX", "FIFO"}

\* The lists vkGetPhysicalDeviceSurfacePresentModesKHR can report.
PresentModeLists == SeqsUpTo(PresentModes, MaxModes)

\* choose_present_mode.
choose_present_mode(modes) ==
  IF \E i \in 1..Len(modes) : modes[i] = "MAILBOX"
  THEN "MAILBOX"
  ELSE "FIFO"

\* A call of choose_present_mode.
ChoosePresentMode ==
  /\ call = NoCall
  /\ \E modes \in PresentModeLists :
       call' = [fn |-> "choose_present_mode", args |-> modes,
                result |-> choose_present_mode(modes)]
  /\ UNCHANGED programVars

\* VkExtent2D values of the extent limits of a surface.
Extents == [width : 0..MaxExtent, height : 0..MaxExtent]

\* The currentExtent of a surface: an extent, or UINT32_MAX in both
\* components when the surface leaves the size to the swapchain.
CurrentExtents == Extents \cup {[width |-> Uint32Max, height |-> Uint32Max]}

\* The extent fields of the VkSurfaceCapabilitiesKHR a surface can report:
\* the minimum is not above the maximum.
ExtentCaps ==
  {c \in [currentExtent : CurrentExtents, minImageExtent : Extents,
          maxImageExtent : Extents] :
     /\ c.minImageExtent.width <= c.maxImageExtent.width
     /\ c.minImageExtent.height <= c.maxImageExtent.height}

\* std::clamp.
clamp(v, lo, hi) == IF v < lo THEN lo ELSE IF hi < v THEN hi ELSE v

\* clamp_extent.
clamp_extent(value, minv, maxv) ==
  [width |-> clamp(value.width, minv.width, maxv.width),
   height |-> clamp(value.height, minv.height, maxv.height)]

\* choose_extent, where glfwGetFramebufferSize reports w and h.
choose_extent(caps, w, h) ==
  IF caps.currentExtent.width # Uint32Max
  THEN caps.currentExtent
  ELSE IF w <= 0 \/ h <= 0
       THEN clamp_extent([width |-> 1, height |-> 1],
                         caps.minImageExtent, caps.maxImageExtent)
       ELSE clamp_extent([width |-> w, height |-> h],
                         caps.minImageExtent, caps.maxImageExtent)

\* A call of choose_extent.
ChooseExtent ==
  /\ call = NoCall
  /\ \E caps \in ExtentCaps, w \in -1..(MaxExtent + 1), h \in -1..(MaxExtent + 1) :
       call' = [fn |-> "choose_extent", args |-> [caps |-> caps, w |-> w, h |-> h],
                result |-> choose_extent(caps, w, h)]
  /\ UNCHANGED programVars

\* The sets of non-null handle fields an object of component c can have:
\* none as constructed or shut down, and what an init that ran up to
\* some step has set.
HandleStates(c) ==
  {{}} \cup
  UNION {{FieldsSetBefore(InitSteps(c, input), k) :
            k \in FailPoints(InitSteps(c, input))} : input \in Inputs(c)}

\* The handles of an object: each non-null field holds the handle this
\* object's own init created, named by the field and the object.
HandlesOf(object, fields) == {<<f, object>> : f \in fields}

\* Context::operator= calls shutdown() on the destination before it takes
\* the source's handles; the move assignments of the other components
\* do not.
ShutsDownBeforeMove(c) == c = "Context"

\* The handles of `owned` that a shutdown of component c destroys.
DestroyedByShutdown(c, owned) ==
  LET fields == {h[1] : h \in owned}
      st == RunShutdown(ShutdownSteps(c),
                        [handles |-> fields, live |-> fields,
                         destroyed |-> <<>>, invalid |-> FALSE])
  IN {h \in owned : \E k \in 1..Len(st.destroyed) : st.destroyed[k].obj = h[1]}

\* operator=(T&& other) of component c on two objects, or on one and the
\* same object: the handles each object holds afterwards and the handles
\* destroyed on the way.
move_assign(c, this, other, same) ==
  IF same
  THEN [this |-> this, other |-> this, destroyed |-> {}]
  ELSE [this |-> other, other |-> {},
        destroyed |-> IF ShutsDownBeforeMove(c)
                      THEN DestroyedByShutdown(c, this)
                      ELSE {}]

\* A move assignment between two objects of one component (a move
\* construction is the assignment to an object with null handles), or of
\* an object to itself.
MoveAssign ==
  /\ call = NoCall
  /\ \E c \in Components, same \in BOOLEAN :
       \E this \in HandleStates(c), other \in HandleStates(c) :
         /\ same => this = other
         /\ LET a == HandlesOf("this", this)
                b == IF same THEN a ELSE HandlesOf("other", other)
            IN call' = [fn |-> "move_assign",
                        args |-> [component |-> c, this |-> a, other |-> b,
                                  same |-> same],
                        result |-> move_assign(c, a, b, same)]
  /\ UNCHANGED programVars

\* A call of find_memory_type.
FindMemoryType ==
  /\ call = NoCall
  /\ \E mem \in MemoryProperties, type_bits \in 0..(2 ^ MaxMemoryTypes - 1),
        props \in MemoryPropertyFlags :
       call' = [fn |-> "find_memory_type",
                args |-> [mem |-> mem, type_bits |-> type_bits, props |-> props],
                result |-> find_memory_type(mem, type_bits, props)]
  /\ UNCHANGED programVars

\* ------------------------------------------------------- specification

Next ==
  \/ SwapchainInit
  \/ PipelineInit
  \/ RendererInit
  \/ DrawFrameBegin
  \/ WaitForFences
  \/ ResetFences
  \/ AcquireNextImage
  \/ RecordCommandBuffer
  \/ QueueSubmit
  \/ QueuePresent
  \/ RecreateWaitIdle
  \/ SwapchainWaitSize
  \/ SwapchainWaitEvents
  \/ SwapchainWaitIdle
  \/ SwapchainDestroyViews
  \/ SwapchainCreate
  \/ SwapchainCreateViews
  \/ SwapchainDestroyOld
  \/ RecreateDestroyFramebuffers
  \/ RecreateCommandBuffers
  \/ RecreateCreateFramebuffers
  \/ DrawFrameReturnAfterRecreate
  \/ UploadBegin
  \/ UploadSubmit
  \/ UploadFree
  \/ StagingCreate
  \/ StagingDestroy
  \/ StagingReturn
  \/ RendererShutdownBegin
  \/ RendererShutdown
  \/ GpuComplete
  \/ WindowEvent

Spec == Init /\ [][Next]_vars

\* The calls on one component, from its construction.
NextComponent ==
  \/ ComponentConstruct
  \/ ComponentInit
  \/ ComponentRecreate
  \/ ComponentShutdown

SpecComponent == Init /\ [][NextComponent]_vars

\* The calls of the free functions, one after the other, in any order and
\* with any arguments.
NextPure ==
  \/ CallReturn
  \/ FindMemoryType
  \/ ImageCount
  \/ BufferUpload
  \/ PickPhysicalDevice
  \/ Main
  \/ ChooseSurfaceFormat
  \/ ChoosePresentMode
  \/ ChooseExtent
  \/ MoveAssign

SpecPure == Init /\ [][NextPure]_vars

\* ------------------------------------------------------------- ObjLoader

\* The range of a std::int32_t, IndexBits wide.
Int32Min == -(2 ^ (IndexBits - 1))
Int32Max == 2 ^ (IndexBits - 1) - 1

\* The int32_t a wrapping build keeps of the integer n.
Int32Wrap(n) == ((n - Int32Min) % (2 ^ IndexBits)) + Int32Min

\* What a build does with the signed overflow of `value * 10 + digit` in
\* parse_vertex_index_token: it wraps, or it traps.
OverflowBuilds == {"wrap", "trap"}

\* The result of a throwing function: the value it returned, or a failure.
Returned(v) == [failed |-> FALSE, value |-> v]
Thrown == [failed |-> TRUE, value |-> 0]

\* The leading integers of the face tokens of a file: every vertex index
\* near the vertices of the file, and one of each sign that an int32_t
\* cannot hold.
ObjIndexTokens ==
  (-(MaxObjVertices + 1))..(MaxObjVertices + 1) \cup
  {2 ^ IndexBits + 1, -(2 ^ IndexBits) - 1}

\* ObjLoader::parse_vertex_index_token on a token whose head is the decimal
\* integer `token`: the digits are accumulated in an int32_t and the sign
\* is applied at the end.
parse_vertex_index_token(token, build) ==
  LET magnitude == IF token < 0 THEN -token ELSE token
  IN IF magnitude > Int32Max /\ build = "trap"
     THEN Thrown
     ELSE Returned(IF token < 0
                   THEN Int32Wrap(-Int32Wrap(magnitude))
                   ELSE Int32Wrap(magnitude))

\* ObjLoader::to_zero_based_index.
to_zero_based_index(obj_index, vertex_count) ==
  IF obj_index > 0
  THEN LET z == obj_index - 1
       IN IF z < 0 \/ z >= vertex_count THEN Thrown ELSE Returned(z)
  ELSE IF obj_index < 0
       THEN LET z == vertex_count + obj_index
            IN IF z < 0 \/ z >= vertex_count THEN Thrown ELSE Returned(z)
       ELSE Thrown

\* The lines of an OBJ file that ObjLoader::load does not skip: a vertex
\* line, or a face line with the leading integers of its tokens.
VertexLine == [tag |-> "v", face |-> <<>>]
FaceLine(tokens) == [tag |-> "f", face |-> tokens]

\* The face lines a file can hold: up to MaxFaceVertices tokens.
ObjFaces ==
  UNION {[1..n -> ObjIndexTokens] : n \in 1..MaxFaceVertices}

\* The files load is given: vertex lines, a face line, vertex lines.
ObjFiles ==
  [before : 0..MaxObjVertices, face : ObjFaces, after : 0..1]

\* The lines of the file, in order.
Lines(file) ==
  [k \in 1..file.before |-> VertexLine] \o
  <<FaceLine(file.face)>> \o
  [k \in 1..file.after |-> VertexLine]

\* The triangles (0, i, i + 1), i from `i` on, of a face line of load,
\* appended to `indices`; a token out of range fails the load.
RECURSIVE fan(_, _, _, _, _)
fan(face, i, i0, vcount, indices) ==
  IF i + 1 > Len(face)
  THEN Returned(indices)
  ELSE LET i1 == to_zero_based_index(face[i], vcount)
           i2 == to_zero_based_index(face[i + 1], vcount)
       IN IF i1.failed \/ i2.failed
          THEN Thrown
          ELSE fan(face, i + 1, i0, vcount,
                   indices \o <<i0, i1.value, i2.value>>)

\* The loop of ObjLoader::load over the lines: `out` is the ObjMesh so far,
\* its positions counted in vertices.
RECURSIVE load_lines(_, _, _)
load_lines(lines, out, build) ==
  IF lines = <<>>
  THEN IF out.positions = 0 \/ out.indices = <<>> THEN Thrown ELSE Returned(out)
  ELSE LET line == Head(lines)
       IN IF line.tag = "v"
          THEN load_lines(Tail(lines),
                          [out EXCEPT !.positions = out.positions + 1], build)
          ELSE LET parsed == [k \in 1..Len(line.face) |->
                                parse_vertex_index_token(line.face[k], build)]
                   face == [k \in 1..Len(parsed) |-> parsed[k].value]
                   vcount == out.positions
                   i0 == to_zero_based_index(face[1], vcount)
               IN IF \E k \in 1..Len(parsed) : parsed[k].failed
                  THEN Thrown
                  ELSE IF Len(face) < 3
                       THEN Thrown
                       ELSE IF i0.failed
                            THEN Thrown
                            ELSE LET f == fan(face, 2, i0.value, vcount,
                                              out.indices)
                                 IN IF f.failed
                                    THEN Thrown
                                    ELSE load_lines(
                                           Tail(lines),
                                           [out EXCEPT !.indices = f.value],
                                           build)

\* ObjLoader::load on a file that opens.
load(file, build) ==
  load_lines(Lines(file), [positions |-> 0, indices |-> <<>>], build)

\* ObjLoader::load is called on a file.
Load ==
  /\ call = NoCall
  /\ \E file \in ObjFiles, build \in OverflowBuilds :
       call' = [fn |-> "load", args |-> file, build |-> build,
                result |-> load(file, build)]
  /\ UNCHANGED programVars

NextObj ==
  \/ CallReturn
  \/ Load

SpecObj == Init /\ [][NextObj]_vars

\* The positions of the control thread.
Positions ==
  {"start", "sc_ready", "pl_ready", "idle", "failed",
   "wait", "reset", "acquire", "record", "submit", "present",
   "rc_wait_idle", "sc_wait_size", "sc_wait_events", "sc_wait_idle",
   "sc_destroy_views", "sc_create", "sc_create_views", "sc_destroy_old",
   "rc_destroy_framebuffers", "rc_command_buffers", "rc_create_framebuffers",
   "rc_return", "sd_wait_idle", "down", "up_recording", "up_wait_idle",
   "st_ready", "st_copied", "st_return"}

\* The positions inside recreate_swapchain_dependent.
RecreatePositions ==
  {"rc_wait_idle", "sc_wait_size", "sc_wait_events", "sc_wait_idle",
   "sc_destroy_views", "sc_create", "sc_create_views", "sc_destroy_old",
   "rc_destroy_framebuffers", "rc_command_buffers", "rc_create_framebuffers"}

TypeOK ==
  /\ pc \in Positions
  /\ minimized \in BOOLEAN
  /\ swapchain_ \in 0..2
  /\ images_ \in 0..MaxImages
  /\ image_views_ \in 0..MaxImages
  /\ command_buffers_ \in 0..MaxImages
  /\ framebuffers_ \in 0..MaxImages
  /\ acq \in ResultCodes \cup {"none"}
  /\ pres \in ResultCodes \cup {"none"}
  /\ ret \in {"none", "true", "false"}

\* ------------------------------------------------------------- helpers

\* The positions inside draw_frame before recreation.
FramePositions == {"wait", "reset", "acquire", "record", "submit", "present"}

\* Slot i has a submission the graphics queue has not completed.
SlotInFlight(i) == \E k \in 1..Len(gfxQueue) : gfxQueue[k].slot = i

\* Command buffer c has a submission the graphics queue has not completed.
CommandBufferInFlight(c) == \E k \in 1..Len(gfxQueue) : gfxQueue[k].cb = c

\* The calls of a draw_frame that got past acquisition, up to the present.
FullFrameCalls == <<"wait", "reset", "acquire", "record", "submit", "present">>

\* name occurs in the calls of the current draw_frame.
Called(name) == \E k \in 1..Len(calls) : calls[k] = name

\* --------------------------------------------------------------- claims

\* C1: when draw_frame resets the fence of the current ring slot, that
\* fence is signaled, and while it reuses the slot's semaphores (from the
\* reset up to the submit) the slot's previous submission has completed.
C1_FenceSignaledBeforeReuse ==
  /\ pc = "reset" => At(in_flight_, frame_index_)
  /\ pc \in {"reset", "acquire", "record", "submit"} => ~SlotInFlight(frame_index_)

\* C1 witness: the call found the slot's fence unsignaled when it began,
\* has waited for it and is about to reset it while the other slot's
\* submission is still executing.
C1_Witness ==
  /\ pc = "reset"
  /\ ~entry.fence
  /\ gfxQueue # <<>>

\* C2 (as stated): draw_frame never resets and re-records the command
\* buffer of the acquired image index while a submission of that command
\* buffer is still executing.
C2_NoRerecordWhileExecuting ==
  pc = "record" => ~CommandBufferInFlight(image_index)

\* C3 (as stated): the draw_frame call that follows an early return after
\* an out-of-date acquisition is never stuck at its fence wait: the fence
\* of the current slot is signaled, or a submission that will signal it is
\* in the queue.
C3_RetryPassesFenceWait ==
  (pc = "wait" /\ skippedAtAcquire) =>
    (At(in_flight_, frame_index_) \/ SlotInFlight(frame_index_))

\* C4 (as stated): when draw_frame has returned early after an out-of-date
\* acquisition, it has submitted and presented nothing, and the slot's
\* fence and both semaphores are as they were when the call began.
C4_EarlyReturnLeavesSyncUntouched ==
  (pc = "idle" /\ skippedAtAcquire) =>
    /\ ~Called("submit")
    /\ ~Called("present")
    /\ At(in_flight_, frame_index_) = entry.fence
    /\ At(image_available_, frame_index_) = entry.image_available
    /\ At(render_finished_, frame_index_) = entry.render_finished

\* C5: the ring slot index stays in 0..N-1; a draw_frame that returns after
\* getting past acquisition advances it by one modulo N, one that returns
\* early after an out-of-date acquisition leaves it, Renderer::shutdown
\* resets it to 0, and no other step changes it.
C5_RingSlotAdvance ==
  /\ [](frame_index_ \in 0..(kMaxFramesInFlight - 1))
  /\ [][IF pc \in (FramePositions \cup {"rc_return"}) /\ pc' = "idle"
        THEN frame_index_' = IF acq = "OUT_OF_DATE"
                             THEN frame_index_
                             ELSE (frame_index_ + 1) % kMaxFramesInFlight
        ELSE frame_index_' = IF pc = "sd_wait_idle" /\ pc' = "down"
                             THEN 0
                             ELSE frame_index_]_vars

\* C5 witness: a call that recreated after presenting has returned and
\* wrapped the ring slot from N-1 to 0.
C5_Witness ==
  /\ pc = "idle"
  /\ ret = "false"
  /\ ~skippedAtAcquire
  /\ frame_index_ = 0

\* C6: at most N submissions are in flight, and no two of them belong to
\* the same ring slot: a slot's next frame starts only after the fence wait
\* has seen the slot's previous frame complete.
C6_AtMostNInFlight ==
  /\ Len(gfxQueue) <= kMaxFramesInFlight
  /\ \A j, k \in 1..Len(gfxQueue) : gfxQueue[j].slot = gfxQueue[k].slot => j = k

\* C6 witness: N submissions are in flight and the control thread is
\* blocked at the fence wait of the next frame.
C6_Witness ==
  /\ Len(gfxQueue) = kMaxFramesInFlight
  /\ pc = "wait"
  /\ ~At(in_flight_, frame_index_)

\* C7: once Renderer::init has run, and outside recreation, the numbers of
\* framebuffers and of command buffers equal the swapchain's image count,
\* and the acquired image index is a valid index into both.
C7_PerImageCountsMatch ==
  /\ pc \in (FramePositions \cup {"idle"}) =>
       /\ images_ >= 1
       /\ framebuffers_ = images_
       /\ command_buffers_ = images_
  /\ pc = "record" => (image_index < command_buffers_ /\ image_index < framebuffers_)

\* C7 witness: after a recreation, the last image of a three-image
\* swapchain has been acquired and is about to be recorded.
C7_Witness ==
  /\ pc = "record"
  /\ ret = "false"
  /\ images_ = 3
  /\ image_index = 2

\* C8 (as stated): after a recreation, the render pass's colour attachment
\* format equals the swapchain's image format.
C8_RenderPassFormatMatches ==
  (pc = "idle" /\ ret = "false") => render_pass_format = image_format_

\* C9: a draw_frame whose acquisition was suboptimal enters recreation only
\* from the call site after present, having recorded, submitted and
\* presented; and when it has returned, a recreation has followed its
\* present, whatever the present reported.
C9_SuboptimalPresentedBeforeRecreate ==
  /\ (acq = "SUBOPTIMAL" /\ pc \in RecreatePositions) =>
       /\ rcSite = "present"
       /\ SubSeq(calls, 1, Len(FullFrameCalls)) = FullFrameCalls
  /\ (acq = "SUBOPTIMAL" /\ pc = "idle") =>
       calls = Append(FullFrameCalls, "recreate")

\* C9 witness: a call whose acquisition was suboptimal and whose present
\* reported success has returned.
C9_Witness ==
  /\ pc = "idle"
  /\ acq = "SUBOPTIMAL"
  /\ pres = "SUCCESS"

\* C10: a draw_frame that has returned returned success exactly when
\* acquisition and presentation both reported success, and it recreated
\* (and returned the skipped signal) exactly when acquisition was
\* out-of-date or suboptimal or presentation was out-of-date or suboptimal.
C10_ReturnValue ==
  (pc = "idle" /\ ret # "none") =>
    /\ ret = "true" <=> (acq = "SUCCESS" /\ pres = "SUCCESS")
    /\ Called("recreate") <=>
         \/ acq \in {"OUT_OF_DATE", "SUBOPTIMAL"}
         \/ pres \in {"OUT_OF_DATE", "SUBOPTIMAL"}
    /\ Called("recreate") => ret = "false"

\* C10 witness: a call whose acquisition succeeded and whose present was
\* suboptimal has returned the skipped signal.
C10_Witness ==
  /\ pc = "idle"
  /\ ret = "false"
  /\ acq = "SUCCESS"
  /\ pres = "SUBOPTIMAL"

\* --------------------------------------------------- Swapchain::recreate

\* The positions of Swapchain::recreate inside its size loop.
SizeLoopPositions == {"sc_wait_size", "sc_wait_events"}

\* The positions of Swapchain::recreate after its size loop.
RebuildPositions ==
  {"sc_wait_idle", "sc_destroy_views", "sc_create", "sc_create_views",
   "sc_destroy_old"}

\* A step of Swapchain::recreate after its size loop.
SwapchainRebuildStep ==
  \/ SwapchainWaitIdle
  \/ SwapchainDestroyViews
  \/ SwapchainCreate
  \/ SwapchainCreateViews
  \/ SwapchainDestroyOld

\* The control thread runs when it can and the graphics queue completes
\* what was submitted to it.
FairSpec ==
  /\ Spec
  /\ WF_vars(SwapchainRebuildStep)
  /\ WF_vars(GpuComplete)

RebuildCalls(o) ==
  <<ScCall("vkDeviceWaitIdle", 0), ScCall("destroy_image_views", 0),
    ScCall("vkCreateSwapchainKHR", o), ScCall("create_image_views", 0),
    ScCall("vkDestroySwapchainKHR", o)>>

\* C12: after the size loop Swapchain::recreate waits for the device,
\* destroys the image views, creates the swapchain with the old handle,
\* creates the views and destroys the old handle, in this order; the old
\* handle is destroyed once, when the new swapchain is live.
C12_RebuildOrder ==
  /\ (pc \in RebuildPositions \cup {"rc_destroy_framebuffers"}) =>
        (\E o \in 1..2 : scCalls = SubSeq(RebuildCalls(o), 1, Len(scCalls)))
  /\ (pc = "sc_destroy_old") =>
        /\ old # 0 /\ old # swapchain_
        /\ {old, swapchain_} \subseteq liveSwapchains
  /\ (pc = "rc_destroy_framebuffers") =>
        /\ scCalls = RebuildCalls(old)
        /\ liveSwapchains = {swapchain_}

\* A recreation has returned: the five calls were made and only the new
\* swapchain is live.
C12_Witness ==
  /\ pc = "rc_destroy_framebuffers"
  /\ Len(scCalls) = 5
  /\ old \notin liveSwapchains
  /\ swapchain_ \in liveSwapchains

\* ----------------------------------------------------- destroy when idle

\* The step destroys a sync object, a framebuffer, a command buffer, an
\* image view or a swapchain.
DestroysDeviceObject ==
  \/ Len(in_flight_') < Len(in_flight_)
  \/ Len(image_available_') < Len(image_available_)
  \/ Len(render_finished_') < Len(render_finished_)
  \/ framebuffers_' < framebuffers_
  \/ command_buffers_ # 0 /\ command_buffers_' # command_buffers_
  \/ image_views_' < image_views_
  \/ liveSwapchains \ liveSwapchains' # {}

\* C13: Renderer::shutdown and the recreation destroy only when the
\* graphics queue is empty, and while a submission is executing, the
\* fence and semaphores of its slot, its command buffer, the framebuffer
\* and the image view of its image and the swapchain all exist.
C13_DestroyOnlyWhenIdle ==
  /\ [][DestroysDeviceObject => gfxQueue = <<>>]_vars
  /\ [](\A k \in 1..Len(gfxQueue) :
          /\ gfxQueue[k].slot < Len(in_flight_)
          /\ gfxQueue[k].slot < Len(image_available_)
          /\ gfxQueue[k].slot < Len(render_finished_)
          /\ gfxQueue[k].cb < command_buffers_
          /\ gfxQueue[k].cb < framebuffers_
          /\ gfxQueue[k].cb < image_views_
          /\ swapchain_ \in liveSwapchains)

\* Renderer::shutdown waits in vkDeviceWaitIdle while both slots have a
\* submission executing and nothing is destroyed yet.
C13_Witness ==
  /\ pc = "sd_wait_idle"
  /\ Len(gfxQueue) = kMaxFramesInFlight
  /\ Len(in_flight_) = kMaxFramesInFlight
  /\ framebuffers_ > 0
  /\ command_buffers_ > 0

\* ---------------------------------------------------------------- upload

\* C20: Upload::end_and_submit submits without semaphores and without a
\* fence, and while its submission is executing it has not returned and
\* the command buffer is not freed; so no upload submission is pending
\* when draw_frame or another upload submits.
C20_UploadSynchronous ==
  /\ [][(pc = "up_recording" /\ pc' # pc) =>
         (/\ gfxQueue' = Append(gfxQueue, UploadSubmission)
          /\ UNCHANGED syncVars)]_vars
  /\ [](UploadPending => (pc = "up_wait_idle" /\ upload_cb))
  /\ [](pc \in {"submit", "up_recording"} => ~UploadPending)

\* Upload::end_and_submit waits in vkQueueWaitIdle while its submission
\* is executing.
C20_Witness ==
  /\ pc = "up_wait_idle"
  /\ UploadPending
  /\ upload_cb

\* ------------------------------------------------------ component lifetimes

\* The last call on the component was a shutdown.
ShutdownReturned == ops # <<>> /\ Last(ops).call = "shutdown"

\* The last two calls on the component were shutdowns.
ShutdownTwice ==
  /\ Len(ops) >= 2
  /\ ops[Len(ops)].call = "shutdown"
  /\ ops[Len(ops) - 1].call = "shutdown"

\* The last two calls on the component were an init and a shutdown.
InitThenShutdown ==
  /\ Len(ops) >= 2
  /\ ops[Len(ops)].call = "shutdown"
  /\ ops[Len(ops) - 1].call = "init"

DestroyedAt(name) ==
  IF \E k \in 1..Len(destroyed) : destroyed[k].obj = name
  THEN CHOOSE k \in 1..Len(destroyed) : destroyed[k].obj = name
  ELSE 0

\* Both were destroyed by the last shutdown, `first` before `second`.
DestroyedInOrder(first, second) ==
  (DestroyedAt(first) # 0 /\ DestroyedAt(second) # 0) =>
    DestroyedAt(first) < DestroyedAt(second)

\* C15: Context::shutdown, also after an init that failed part way,
\* releases the uploader, then the device, then the surface, then the debug
\* messenger, then the instance: the uploader's command pool is destroyed
\* with the device live, the surface and the debug messenger with the
\* instance live.
C15_ContextShutdownOrder ==
  (active = "Context" /\ ShutdownReturned) =>
    /\ DestroyedInOrder("upload_->command_pool_", "upload_")
    /\ DestroyedInOrder("upload_", "device_")
    /\ DestroyedInOrder("device_", "surface_")
    /\ DestroyedInOrder("device_", "debug_messenger_")
    /\ DestroyedInOrder("surface_", "debug_messenger_")
    /\ DestroyedInOrder("surface_", "instance_")
    /\ DestroyedInOrder("debug_messenger_", "instance_")
    /\ \A k \in 1..Len(destroyed) :
         /\ destroyed[k].obj = "upload_->command_pool_" =>
              "device_" \in destroyed[k].live
         /\ destroyed[k].obj \in {"surface_", "debug_messenger_"} =>
              "instance_" \in destroyed[k].live

\* A fully initialized Context with a debug messenger was shut down: six
\* objects were destroyed and none is left.
C15_Witness ==
  /\ active = "Context"
  /\ InitThenShutdown
  /\ Len(destroyed) = 6
  /\ liveObjects = {}

\* C16 (as stated): when Context::init has failed, every handle of the
\* Context is null.
C16_InitFailureLeavesNoHandle ==
  (active = "Context" /\ ops # <<>> /\ Last(ops).call = "init"
     /\ Last(ops).failedAt # 0) =>
    handles = {}

\* C17 (as stated): after a Pipeline::init that failed and the
\* Pipeline::shutdown that follows, no object is live, and a further
\* shutdown destroys nothing.
C17_FailedInitThenShutdownLeavesNothing ==
  /\ (active = "Pipeline" /\ InitThenShutdown
        /\ ops[Len(ops) - 1].failedAt # 0) =>
       liveObjects = {}
  /\ (active = "Pipeline" /\ ShutdownTwice) => destroyed = <<>>

\* C18: Pipeline::init given a shader file that is missing, empty or of a
\* size that is not a multiple of 4 fails, and at the failure the pipeline
\* handle is null and no pipeline object exists.
C18_BadShaderFailsBeforePipeline ==
  (active = "Pipeline" /\ ops # <<>> /\ Last(ops).call = "init"
     /\ (Last(ops).input.vert.size % 4 # 0 \/ Last(ops).input.vert.size = 0
         \/ ~Last(ops).input.vert.exists
         \/ Last(ops).input.frag.size % 4 # 0 \/ Last(ops).input.frag.size = 0
         \/ ~Last(ops).input.frag.exists)) =>
    /\ Last(ops).failedAt # 0
    /\ "pipeline_" \notin handles
    /\ "pipeline_" \notin liveObjects

\* Pipeline::init failed at the read of a fragment shader whose size is not
\* a multiple of 4, after the vertex shader module was created.
C18_Witness ==
  /\ active = "Pipeline"
  /\ Len(ops) = 1
  /\ ops[1].call = "init"
  /\ ops[1].input.vert.exists /\ ops[1].input.vert.size = 4
  /\ ops[1].input.frag.exists /\ ops[1].input.frag.size = 3
  /\ ops[1].failedAt = 4
  /\ "pipeline_" \notin handles

\* No init called on the component has failed.
NoInitFailed ==
  \A k \in 1..Len(ops) : ops[k].call = "init" => ops[k].failedAt = 0

\* C19: Mesh::init_from_data that succeeded on at least 3 vertices and 3
\* indices, followed by Mesh::shutdown, leaves no buffer or memory live,
\* the staging ones included, and a second shutdown frees nothing.
C19_MeshReleasesEverything ==
  /\ (active = "Mesh" /\ InitThenShutdown /\ NoInitFailed
        /\ ops[Len(ops) - 1].input.vertices >= 3
        /\ ops[Len(ops) - 1].input.indices >= 3) =>
       liveObjects = {}
  /\ (active = "Mesh" /\ ShutdownTwice) => destroyed = <<>>

\* A mesh of the most vertices and indices was initialized and shut down:
\* the two buffers, their memories and the Impl were released.
C19_Witness ==
  /\ active = "Mesh"
  /\ Len(ops) = 2
  /\ InitThenShutdown
  /\ ops[1].failedAt = 0
  /\ ops[1].input.vertices = MaxVertices /\ ops[1].input.indices = MaxIndices
  /\ Len(destroyed) = 5
  /\ liveObjects = {}

\* ------------------------------------------- claims on staging and moves

\* C21: init_device_local_with_staging destroys its staging buffer only
\* once the device has executed the copy it submitted through the
\* uploader, and the staging buffer is not live when the call has
\* returned.
C21_StagingOutlivesCopy ==
  /\ [][(staging_ /\ ~staging_') => (copy_done /\ ~UploadPending)]_vars
  /\ [](pc \notin {"st_ready", "st_copied", "up_recording", "up_wait_idle"}
          => ~staging_)

\* C21 witness: the staging buffer has been destroyed after its copy was
\* executed, and the call is about to return.
C21_Witness ==
  /\ pc = "st_return"
  /\ copy_done
  /\ ~staging_

\* ------------------------------------------------ claims on free functions

\* The indices of mem whose bit is set in type_bits and whose flags offer
\* every flag of props.
SuitableTypes(mem, type_bits, props) ==
  {i \in 0..(Len(mem) - 1) :
     /\ (type_bits \div (2 ^ i)) % 2 = 1
     /\ props \subseteq mem[i + 1]}

\* C22: find_memory_type returns the lowest index whose bit is set in the
\* type bitmask and whose flags include every requested flag, and fails
\* exactly when there is no such index.
C22_LowestSuitableMemoryType ==
  call.fn = "find_memory_type" =>
    LET suitable == SuitableTypes(call.args.mem, call.args.type_bits,
                                  call.args.props)
    IN IF suitable = {}
       THEN call.result.failed
       ELSE /\ ~call.result.failed
            /\ call.result.index \in suitable
            /\ \A i \in suitable : call.result.index <= i

\* C22 witness: index 0 is rejected, two later indices are suitable and the
\* lower of them is returned.
C22_Witness ==
  /\ call.fn = "find_memory_type"
  /\ call.args.props # {}
  /\ SuitableTypes(call.args.mem, call.args.type_bits, call.args.props) = {1, 2}
  /\ ~call.result.failed
  /\ call.result.index = 1

\* C23 (as stated): for every report of the two image-count limits, the
\* count create_swapchain requests is at least the minimum and, when the
\* maximum is not zero, at most the maximum.
C23_ImageCountWithinLimits ==
  call.fn = "image_count" =>
    /\ call.args.minImageCount <= call.result
    /\ call.args.maxImageCount = 0 \/ call.result <= call.args.maxImageCount

\* C24 (as stated): Buffer::upload fails without calling vkMapMemory and
\* without writing a byte whenever data is null or offset + size exceeds
\* the buffer's size, and an upload that succeeds writes only bytes of the
\* buffer's allocation.
C24_UploadStaysInRange ==
  call.fn = "upload" =>
    /\ (call.args.data_null \/ call.args.offset + call.args.size > call.args.size_)
         => (call.result.failed /\ ~call.result.map_called
               /\ call.result.written = {})
    /\ ~call.result.failed => call.result.written \subseteq 0..(call.args.size_ - 1)

\* The device has a graphics family, a family that can present, and the
\* swapchain extension.
Qualifies(pd) ==
  /\ \E i \in 1..Len(pd.families) : pd.families[i].graphics
  /\ \E i \in 1..Len(pd.families) : pd.families[i].present
  /\ pd.swapchain_ext

RECURSIVE Reverse(_)
Reverse(seq) ==
  IF seq = <<>> THEN <<>> ELSE Append(Reverse(Tail(seq)), Head(seq))

\* C26 (as stated): when a startup step of main fails, the objects main
\* has created so far are destroyed, in reverse order of creation, before
\* the process exits.
C26_StartupFailureTearsDown ==
  (call.fn = "main" /\ call.result.failed) =>
    call.result.destroyed = Reverse(call.result.created)

\* B8G8R8A8 sRGB in the sRGB-nonlinear colour space.
Bgra8Srgb == [format |-> "B8G8R8A8_SRGB", colorSpace |-> "SRGB_NONLINEAR"]

\* x is an element of seq.
Offered(seq, x) == \E i \in 1..Len(seq) : seq[i] = x

\* C27: choose_surface_format returns B8G8R8A8 sRGB / sRGB-nonlinear when
\* it is offered, else the first offered format, and fails when none is
\* offered; choose_present_mode returns mailbox when it is offered and
\* FIFO otherwise.
C27_FormatAndPresentModeChoice ==
  /\ call.fn = "choose_surface_format" =>
       IF call.args = <<>>
       THEN call.result.failed
       ELSE /\ ~call.result.failed
            /\ call.result.format = IF Offered(call.args, Bgra8Srgb)
                                    THEN Bgra8Srgb
                                    ELSE call.args[1]
  /\ call.fn = "choose_present_mode" =>
       call.result = IF Offered(call.args, "MAILBOX") THEN "MAILBOX" ELSE "FIFO"

\* C27 witness: the preferred format is offered second, after the same
\* format in another colour space, and is the one returned.
C27_Witness ==
  /\ call.fn = "choose_surface_format"
  /\ Len(call.args) = 2
  /\ call.args[1] = [format |-> "B8G8R8A8_SRGB", colorSpace |-> "OTHER"]
  /\ call.args[2] = Bgra8Srgb
  /\ call.result.format = Bgra8Srgb

\* v brought into lo..hi.
Into(v, lo, hi) == IF v < lo THEN lo ELSE IF v > hi THEN hi ELSE v

\* C28 (as stated): choose_extent returns the surface's current extent when
\* it is defined, and otherwise the framebuffer size, or 1x1 when its width
\* or height is not positive, clamped component-wise into the surface's
\* extent limits; the extent it returns is never zero-sized.
C28_ExtentChoiceNeverZero ==
  call.fn = "choose_extent" =>
    LET caps == call.args.caps
        size == IF call.args.w <= 0 \/ call.args.h <= 0
                THEN [width |-> 1, height |-> 1]
                ELSE [width |-> call.args.w, height |-> call.args.h]
    IN /\ call.result =
            IF caps.currentExtent # [width |-> Uint32Max, height |-> Uint32Max]
            THEN caps.currentExtent
            ELSE [width |-> Into(size.width, caps.minImageExtent.width,
                                 caps.maxImageExtent.width),
                  height |-> Into(size.height, caps.minImageExtent.height,
                                  caps.maxImageExtent.height)]
       /\ call.result.width > 0
       /\ call.result.height > 0

\* C29 (as stated): after a move between two objects no handle is held by
\* both, the source holds no handle and its shutdown destroys nothing, and
\* every handle either object held before the move is still held by one of
\* them or has been destroyed.
C29_MoveKeepsSingleOwner ==
  (call.fn = "move_assign" /\ ~call.args.same) =>
    LET r == call.result
    IN /\ r.this \cap r.other = {}
       /\ r.other = {}
       /\ DestroyedByShutdown(call.args.component, r.other) = {}
       /\ \A h \in call.args.this \cup call.args.other :
            h \in r.this \cup r.other \cup r.destroyed

\* ------------------------------------------- claims on the frame's steps

\* The calls of the current draw_frame without the recreation that may
\* end it.
StepsOfFrame == SelectSeq(calls, LAMBDA c : c # "recreate")

\* C30: the device calls of one draw_frame are made in the order wait
\* fence, reset fence, acquire, record, submit, present; the submit is made
\* only after an acquisition of the same call that returned success or
\* suboptimal, the present only after that submit; and the submit waits on
\* the image-available semaphore and signals the render-finished semaphore
\* and the fence of the ring slot whose fence the call waited on.
C30_FrameStepOrder ==
  /\ [](\E n \in 0..Len(FullFrameCalls) :
          StepsOfFrame = SubSeq(FullFrameCalls, 1, n))
  /\ [](Called("submit") => (Called("acquire") /\ acq \in {"SUCCESS", "SUBOPTIMAL"}))
  /\ [](Called("present") => Called("submit"))
  /\ [][(pc = "submit" /\ pc' = "present") =>
          /\ frame_index_ = entry.slot
          /\ At(image_available_, entry.slot)
          /\ ~At(image_available_', entry.slot)
          /\ At(render_finished_', entry.slot)
          /\ Last(gfxQueue').slot = entry.slot
          /\ \A i \in 0..(kMaxFramesInFlight - 1) :
               i # entry.slot =>
                 /\ At(image_available_', i) = At(image_available_, i)
                 /\ At(render_finished_', i) = At(render_finished_, i)]_vars

\* C30 witness: a call that waited on the fence of slot 1 has made all six
\* calls after a suboptimal acquisition.
C30_Witness ==
  /\ calls = FullFrameCalls
  /\ acq = "SUBOPTIMAL"
  /\ entry.slot = 1

\* ------------------------------------------ claims on the frame's effects

\* C31: Renderer::init leaves every in-flight fence signaled, and a
\* draw_frame that is the first to wait on its ring slot finds the slot's
\* fence signaled, although nothing was ever submitted on the slot.
C31_FirstFrameDoesNotBlock ==
  /\ (pc = "idle" /\ waited = {}) =>
       \A i \in 0..(kMaxFramesInFlight - 1) : At(in_flight_, i)
  /\ (pc = "wait" /\ entry.slot \notin waited) =>
       (At(in_flight_, entry.slot) /\ ~SlotInFlight(entry.slot))

\* C31 witness: the first call on slot 1 is at its fence wait while the
\* submission of slot 0 is still executing.
C31_Witness ==
  /\ pc = "wait"
  /\ entry.slot = 1
  /\ waited = {0}
  /\ gfxQueue # <<>>

\* C32: in draw_frame a device call that returns out-of-date or suboptimal
\* (acquisition or presentation) never raises the fatal error, and a device
\* call that returns any other non-success result (fence wait or reset,
\* acquisition, command buffer record, submit, presentation) raises it and
\* leaves the ring slot index as it was.
C32_OnlyStalenessIsNotFatal ==
  [][(pc \in FramePositions /\ calls' # calls) =>
       /\ vk_result' \in {"OUT_OF_DATE", "SUBOPTIMAL"} => pc' # "failed"
       /\ vk_result' = "ERROR" =>
            (pc' = "failed" /\ frame_index_' = frame_index_)]_vars

\* An init_from_data call was failed by its test for empty data.
FailedAsEmpty(op) ==
  /\ op.call = "init"
  /\ op.failedAt = 1
  /\ (op.input.vertices = 0 \/ op.input.indices = 0)

\* C33: Mesh::init_from_data with no vertices or no indices fails before
\* anything is allocated or created: the call changes nothing the mesh
\* owns and leaves it without an Impl and with zero counts, and a following
\* init_from_data with vertices and indices is turned away neither as a
\* second call nor as empty.
C33_EmptyMeshDataRejectedEarly ==
  [][(active = "Mesh" /\ ops' # ops /\ Last(ops').call = "init") =>
       LET op == Last(ops')
       IN /\ (op.failedAt # CalledTwiceStep
              /\ (op.input.vertices = 0 \/ op.input.indices = 0)) =>
               /\ op.failedAt = 1
               /\ handles' = handles /\ liveObjects' = liveObjects
               /\ handles' = {}
               /\ counts' = [vertex_count_ |-> 0, index_count_ |-> 0]
          /\ (ops # <<>> /\ FailedAsEmpty(Last(ops))
              /\ op.input.vertices > 0 /\ op.input.indices > 0) =>
               op.failedAt \notin {CalledTwiceStep, 1}]_vars

\* C33 witness: an init_from_data without indices failed, and the next
\* one, with vertices and indices, built the mesh.
C33_Witness ==
  /\ active = "Mesh"
  /\ Len(ops) = 2
  /\ FailedAsEmpty(ops[1])
  /\ ops[1].input.vertices > 0
  /\ ops[2].call = "init" /\ ops[2].failedAt = 0
  /\ counts = [vertex_count_ |-> ops[2].input.vertices,
               index_count_ |-> ops[2].input.indices]
  /\ "impl_" \in handles

\* C39: init called on an Upload, a Mesh or a Depth that is initialized
\* (the field its init tests is not null) fails as a second call and
\* leaves the handles, the live objects and the counts as they were.
C39_SecondInitRejected ==
  [][(/\ active \in DOMAIN InitGuard
      /\ InitGuard[active] \in handles
      /\ ops' # ops
      /\ Last(ops').call = "init") =>
       /\ Last(ops').failedAt = CalledTwiceStep
       /\ handles' = handles
       /\ liveObjects' = liveObjects
       /\ counts' = counts]_vars

\* C39 witness: a Mesh was built, and a second init_from_data with other
\* data failed and left the counts of the first.
C39_Witness ==
  /\ active = "Mesh"
  /\ Len(ops) = 2
  /\ ops[1].call = "init" /\ ops[1].failedAt = 0
  /\ ops[2].call = "init" /\ ops[2].failedAt = CalledTwiceStep
  /\ ops[2].input # ops[1].input
  /\ counts = [vertex_count_ |-> ops[1].input.vertices,
               index_count_ |-> ops[1].input.indices]
  /\ "impl_" \in handles

\* The zero-based index the OBJ index k names among `vcount` vertices.
ZeroBased(k, vcount) == IF k > 0 THEN k - 1 ELSE vcount + k

\* The OBJ index k names one of `vcount` vertices.
NamesVertex(k, vcount) ==
  k # 0 /\ ZeroBased(k, vcount) >= 0 /\ ZeroBased(k, vcount) < vcount

\* C34: ObjLoader::load fails on a face line with an index that is 0 or
\* names none of the vertices read so far; otherwise a face of n >= 3
\* indices emits the n - 2 triangles (first, i, i + 1), each OBJ index k
\* as k - 1 when positive and as (vertices so far) - |k| when negative, so
\* every emitted index names a vertex read so far and the number of
\* indices is a multiple of 3.
C34_ObjIndicesValidAndFanned ==
  (call # NoCall /\ call.fn = "load") =>
    LET file == call.args
        face == file.face
        n == Len(face)
        vcount == file.before
        out == call.result
    IN /\ (\E k \in 1..n : ~NamesVertex(face[k], vcount)) => out.failed
       /\ ~out.failed =>
            /\ n >= 3
            /\ Len(out.value.indices) = 3 * (n - 2)
            /\ Len(out.value.indices) % 3 = 0
            /\ \A t \in 1..(n - 2) :
                 /\ out.value.indices[3 * t - 2] = ZeroBased(face[1], vcount)
                 /\ out.value.indices[3 * t - 1] = ZeroBased(face[t + 1], vcount)
                 /\ out.value.indices[3 * t] = ZeroBased(face[t + 2], vcount)
            /\ \A j \in 1..Len(out.value.indices) :
                 out.value.indices[j] \in 0..(vcount - 1)

\* C35: a step of recreate_swapchain_dependent leaves the N sync triples,
\* the command pool and the ring slot index as they were; the command
\* buffers are reallocated exactly when their count differs from the new
\* image count, and have that count afterwards; and the framebuffers are
\* destroyed and built again, one per image view, every time.
C35_RecreateTouchesOnlyPerImage ==
  /\ [][(pc \in RecreatePositions /\ pc' # pc) =>
          /\ UNCHANGED <<syncVars, command_pool_, frame_index_>>
          /\ Len(in_flight_) = kMaxFramesInFlight
          /\ (pc = "rc_command_buffers" /\ pc' # "failed") =>
               /\ reallocated' = (command_buffers_ # images_)
               /\ command_buffers_' = images_
               /\ ~reallocated' => command_buffers_' = command_buffers_
          /\ pc # "rc_command_buffers" => command_buffers_' = command_buffers_
          /\ pc = "rc_destroy_framebuffers" => framebuffers_' = 0
          /\ pc = "rc_create_framebuffers" =>
               (pc' = "rc_return" /\ framebuffers_' = image_views_)]_vars
  /\ [](pc = "rc_return" =>
          (framebuffers_ = image_views_ /\ command_buffers_ = images_))
  /\ [](pc \in {"rc_command_buffers", "rc_create_framebuffers"} =>
          framebuffers_ = 0)

\* C35 witness: a recreation from the present site on the second ring slot
\* has kept its command buffers and built the framebuffers again.
C35_Witness ==
  /\ pc = "rc_return"
  /\ rcSite = "present"
  /\ frame_index_ = 1
  /\ ~reallocated
  /\ framebuffers_ = image_views_
  /\ framebuffers_ > 0

\* C36: on every ring slot the signals and the waits of the two semaphores
\* alternate. The image-available semaphore has no signal pending when it
\* is given to the acquisition, has one when the submit waits on it, and
\* the render-finished semaphore has none when the submit is to signal it
\* and one when the present waits on it; between draw_frame calls and
\* during a recreation, at either site, no semaphore of the ring has a
\* signal pending.
C36_SemaphoresAlternate ==
  /\ pc \in {"wait", "reset", "acquire"} =>
       \A i \in 0..(kMaxFramesInFlight - 1) :
         ~At(image_available_, i) /\ ~At(render_finished_, i)
  /\ pc \in {"record", "submit"} =>
       /\ At(image_available_, frame_index_)
       /\ ~At(render_finished_, frame_index_)
  /\ pc = "present" =>
       /\ ~At(image_available_, frame_index_)
       /\ At(render_finished_, frame_index_)
  /\ (pc \in {"idle", "rc_return"} \cup RecreatePositions) =>
       \A i \in 1..Len(image_available_) :
         ~image_available_[i] /\ ~render_finished_[i]

\* C36 witness: the second ring slot is at its present after the first
\* slot's frame went through a recreation at its present.
C36_Witness ==
  /\ pc = "present"
  /\ frame_index_ = 1
  /\ acq = "SUBOPTIMAL"
  /\ Called("submit")
  /\ At(render_finished_, 1)
  /\ ~At(render_finished_, 0)

\* C37: no live framebuffer references an image view that has been
\* destroyed: while the Renderer holds framebuffers, the views they were
\* built from are live, one for each.
C37_FramebuffersOutlivedByViews ==
  framebuffers_ > 0 => (~stale_views /\ framebuffers_ <= image_views_)

\* C38: a Swapchain::shutdown that follows a Swapchain::recreate that
\* failed partway destroys every swapchain and every image view that is
\* live, each once: nothing the Swapchain created stays live, and nothing
\* is destroyed that was not live.
C38_ShutdownAfterFailedRecreate ==
  (/\ active = "Swapchain"
   /\ Len(ops) >= 2
   /\ Last(ops).call = "shutdown"
   /\ ops[Len(ops) - 1].call = "recreate"
   /\ ops[Len(ops) - 1].failedAt # 0) =>
    (liveObjects = {} /\ ~invalidDestroy)

====
